---- MODULE Spec2Model ----
(***************************************************************************)
(* A model of the BorderZone mod manager (bzmm) back end:                  *)
(*   - the download queue (download_queue.rs) driving the cancellable      *)
(*     transfer -> verify -> extract pipeline (mod_download.rs,            *)
(*     downloader.rs, extraction.rs);                                      *)
(*   - the patch ledger (mod_enablement/patching.rs);                      *)
(*   - the overlay engine and the mod management commands                  *)
(*     (mod_enablement/directory_ops.rs, mod_management.rs).               *)
(***************************************************************************)
EXTENDS Integers, Sequences, FiniteSets, TLC

VARIABLES
    \* ---- download queue (download_queue.rs) ----
    downloads,      \* every QueuedDownload handed to add_download, in call order
    queue,          \* DownloadQueue.queue: the pending items (indices into downloads)
    semaphore,      \* DownloadQueue.semaphore: free permits
    cancel_tokens,  \* DownloadQueue.cancel_tokens: filename -> token (0 = no entry)
    cancelled,      \* the tokens on which cancel() was called
    waiting,        \* spawned process_one_download tasks waiting for a permit
    pc,             \* per download: where the task that popped it stands
    result,         \* per download: the Result its current stage produced
    files,          \* the download directory: per repo subdirectory and filename
    started,        \* downloads for which the pipeline emitted download-started
    cpc,            \* position of the cancel_download call in progress
    cfile,          \* its filename argument
    ctoken,         \* the token it removed and signalled (0 = none)
    ncancel,        \* number of cancel_download calls made
    earlyCancelled  \* downloads that had not begun when a cancel for their filename was called

qvars == <<downloads, queue, semaphore, cancel_tokens, cancelled, waiting, pc, result,
           files, started, cpc, cfile, ctoken, ncancel, earlyCancelled>>

VARIABLES
    \* ---- patch ledger (mod_enablement/patching.rs, file_operations.rs) ----
    content,        \* the content of the lua file at file_path
    mod_name,       \* the mod_name argument
    version,        \* the version argument
    patch,          \* the patch argument (the content of the mod's own lua file)
    ppc,            \* which of patch_lua_file / remove_lua_patch_from_file has run
    original        \* the content before patch_lua_file ran

pvars == <<content, mod_name, version, patch, ppc, original>>

VARIABLES
    \* ---- overlay engine and mod management (directory_ops.rs, mod_management.rs) ----
    tgt,            \* the profile's target tree (dcs_path): path -> entry
    src,            \* per mod: the content of the lua file in its payload
    inst,           \* per mod: its ModInstallation directory with the two markers
    calls,          \* the enable_mod invocations in progress: how many stand where
    last,           \* the command that returned last, with its result
    snap            \* the target tree before the last successful projection

ovars == <<tgt, src, inst, calls, last, snap>>

VARIABLES
    \* ---- update check (parser.rs) ----
    xml_mods,       \* the xml_mods argument: the categories of the catalog, each a list of Mod
    base_download_path, \* the download directory: per subdirectory and mod name, what is there
    repo_url,       \* the repo_url argument
    updated_mods    \* the ModsFile check_for_updates returned

kvars == <<xml_mods, base_download_path, repo_url, updated_mods>>

VARIABLES
    \* ---- what the front end and the disk see of one download ----
    emitted,        \* per download: the events the pipeline emitted for it, in order
    installed,      \* what extract_dir held when the pipeline began
    \* ---- one transfer (downloader.rs) ----
    total_size,     \* the Content-Length of the HEAD response, 0 when there is none
    downloaded,     \* the bytes written so far
    last_emitted_percent, \* the percentage of the last download-progress event
    progress,       \* the percentages of the download-progress events, in order
    dpc,            \* where the transfer stands, and how it ended
    \* ---- one extraction pass (extraction.rs) ----
    archive,        \* the names of the entries of the archive, in order
    index,          \* the loop variable i
    written,        \* the places, relative to extract_dir, that were created or written
    xpc             \* where the pass stands, and how it ended

tvars == <<total_size, downloaded, last_emitted_percent, progress, dpc>>
xvars == <<archive, index, written, xpc>>
evars == <<emitted, installed, tvars, xvars>>

vars == <<qvars, pvars, ovars, kvars, evars>>

\* the values of the variables of a part that a specification does not run
PatchUnused ==
    /\ content = <<>> /\ mod_name = "" /\ version = "" /\ patch = <<>>
    /\ ppc = "unused" /\ original = <<>>

CatalogUnused ==
    /\ xml_mods = <<>> /\ base_download_path = <<>> /\ repo_url = ""
    /\ updated_mods = <<>>

OverlayUnused ==
    /\ tgt = <<>> /\ src = <<>> /\ inst = <<>> /\ calls = <<>>
    /\ last = <<>> /\ snap = <<>>

TransferUnused ==
    /\ total_size = 0 /\ downloaded = 0 /\ last_emitted_percent = 0
    /\ progress = <<>> /\ dpc = "unused"

EntriesUnused ==
    /\ archive = <<>> /\ index = 0 /\ written = {} /\ xpc = "unused"

EventsUnused ==
    /\ emitted = <<>> /\ installed = ""
    /\ TransferUnused
    /\ EntriesUnused

----------------------------------------------------------------------------
(* Bounds of the model *)

MaxEnqueue == 3
MaxCancel == 1
MaxLen == 3

(* Program constants *)

MAX_CONCURRENT_DOWNLOADS == 2

Filenames == {"a.zip", "b.zip"}
Repos == {"r1", "r2"}

\* a download is named by its position in downloads; so is the token made for it
Items == 1..MaxEnqueue

----------------------------------------------------------------------------
(***************************************************************************)
(* The download directory.  files[r][f] is what the repo subdirectory r    *)
(* holds for filename f: the temporary file <name>.tmp, the archive        *)
(* <name>.zip and the extracted mod directory <name>.                      *)
(***************************************************************************)
NoFile == "-"

NoFiles == [tmp |-> "absent", zip |-> "absent", dir |-> "absent"]

\* mod_download.rs: is_mod_successfully_downloaded
is_mod_successfully_downloaded(rec) ==
    CASE rec.zip # "absent" /\ rec.dir # "absent" -> FALSE   \* failed extraction
      [] rec.zip # "absent" /\ rec.dir = "absent" -> FALSE   \* incomplete download
      [] rec.zip = "absent" /\ rec.dir # "absent" -> TRUE
      [] OTHER -> FALSE                                      \* not downloaded

FilenameOf(k) == downloads[k].filename
RepoOf(k) == downloads[k].repo_url

FileOf(k) == files[RepoOf(k)][FilenameOf(k)]

SetFile(k, rec) ==
    [files EXCEPT ![RepoOf(k)][FilenameOf(k)] = rec]

\* CancellationToken::is_cancelled on the token created for download k
IsCancelled(k) == k \in cancelled

----------------------------------------------------------------------------
(* DownloadQueue::add_download *)

Enqueue(f, r) ==
    /\ Len(downloads) < MaxEnqueue
    /\ downloads' = Append(downloads, [filename |-> f, repo_url |-> r])
    /\ queue' = Append(queue, Len(downloads) + 1)
    /\ pc' = [pc EXCEPT ![Len(downloads) + 1] = "queued"]
    /\ waiting' = waiting + 1
    /\ UNCHANGED <<semaphore, cancel_tokens, cancelled, result, files, started,
                   cpc, cfile, ctoken, ncancel, earlyCancelled, pvars, ovars, kvars, evars>>

----------------------------------------------------------------------------
(* DownloadQueue::process_one_download.  The spawned tasks are alike until *)
(* one pops a download, so those that have not popped are only counted.    *)

AcquirePermitLeaky(permits) == permits
AcquirePermit(permits) == permits - 1

\* a drain task that takes the download enqueued last (pop_back)
DrainBack ==
    /\ waiting > 0
    /\ semaphore > 0
    /\ waiting' = waiting - 1
    /\ IF queue = <<>>
       THEN UNCHANGED <<semaphore, queue, pc>>
       ELSE /\ semaphore' = AcquirePermit(semaphore)
            /\ pc' = [pc EXCEPT ![queue[Len(queue)]] = "insert"]
            /\ queue' = SubSeq(queue, 1, Len(queue) - 1)
    /\ UNCHANGED <<downloads, cancel_tokens, cancelled, result, files,
                   started, cpc, cfile, ctoken, ncancel, earlyCancelled, pvars, ovars, kvars, evars>>

\* semaphore.acquire_owned(), then queue.pop_front(); on None the task only
\* drops its permit again.  Taking a permit commutes with the steps of the other
\* tasks that may follow it, so it is taken in the step that pops.
Drain ==
    /\ waiting > 0
    /\ semaphore > 0
    /\ waiting' = waiting - 1
    /\ IF queue = <<>>
       THEN UNCHANGED <<semaphore, queue, pc>>
       ELSE /\ semaphore' = AcquirePermit(semaphore)
            /\ pc' = [pc EXCEPT ![Head(queue)] = "insert"]
            /\ queue' = Tail(queue)
    /\ UNCHANGED <<downloads, cancel_tokens, cancelled, result, files,
                   started, cpc, cfile, ctoken, ncancel, earlyCancelled, pvars, ovars, kvars, evars>>

\* cancel_tokens.insert(filename, token)
InsertToken(k) ==
    /\ pc[k] = "insert"
    /\ cancel_tokens' = [cancel_tokens EXCEPT ![FilenameOf(k)] = k]
    /\ pc' = [pc EXCEPT ![k] = "start"]
    /\ UNCHANGED <<downloads, queue, semaphore, cancelled, waiting, result,
                   files, started, cpc, cfile, ctoken, ncancel, earlyCancelled, pvars, ovars, kvars, evars>>

\* drop(permit)
DropPermitKept(permits) == permits
DropPermit(permits) == permits + 1

\* cancel_tokens.remove(filename), whichever token is filed there, then
\* drop(permit)
Conclude(k) ==
    /\ pc[k] = "remove_token"
    /\ cancel_tokens' = [cancel_tokens EXCEPT ![FilenameOf(k)] = 0]
    /\ semaphore' = DropPermit(semaphore)
    /\ pc' = [pc EXCEPT ![k] = "done"]
    /\ result' = [result EXCEPT ![k] = "none"]
    /\ UNCHANGED <<downloads, queue, cancelled, waiting, files, started,
                   cpc, cfile, ctoken, ncancel, earlyCancelled, pvars, ovars, kvars, evars>>

----------------------------------------------------------------------------
(* A pipeline step of task t: it moves to `next`, leaving `res` as the     *)
(* stage's result and `rec` as the files of its download, after emitting   *)
(* the events `evs` (download-error, extraction-error and the two          *)
(* extraction-status events).                                              *)

Emit(t, next, res, rec, evs) ==
    /\ pc' = [pc EXCEPT ![t] = next]
    /\ result' = [result EXCEPT ![t] = res]
    /\ files' = SetFile(t, rec)
    /\ emitted' = [emitted EXCEPT ![t] = @ \o evs]
    /\ UNCHANGED <<downloads, queue, semaphore, cancel_tokens, cancelled, waiting,
                   started, cpc, cfile, ctoken, ncancel, earlyCancelled, pvars, ovars, kvars,
                   installed, tvars, xvars>>

Step(t, next, res, rec) == Emit(t, next, res, rec, <<>>)

\* emit_error, and the download-error events of mod_download.rs
DownloadError == <<"download-error">>
ExtractionError == <<"extraction-error">>

----------------------------------------------------------------------------
(* mod_download.rs: download_mod_with_cancellation, up to the transfer *)

\* the two cancellation checks before anything is touched
PStart(t) ==
    /\ pc[t] = "start"
    /\ IF IsCancelled(t)
       THEN Step(t, "remove_token", "cancelled", FileOf(t))
       ELSE Step(t, "clean", "none", FileOf(t))

\* clean_existing_mod, then the download-started event
PClean(t) ==
    /\ pc[t] = "clean"
    /\ pc' = [pc EXCEPT ![t] = "dl_head"]
    /\ files' = SetFile(t, [FileOf(t) EXCEPT !.dir = "absent"])
    /\ started' = started \cup {t}
    /\ UNCHANGED <<downloads, queue, semaphore, cancel_tokens, cancelled, waiting,
                   result, cpc, cfile, ctoken, ncancel, earlyCancelled, pvars, ovars, kvars, evars>>

----------------------------------------------------------------------------
(* downloader.rs: ModDownloader::download_mod_with_cancellation *)

\* check at start, URL validation, the HEAD request
DHead(t) ==
    /\ pc[t] = "dl_head"
    /\ IF IsCancelled(t)
       THEN Step(t, "after_dl", "cancelled", FileOf(t))
       ELSE \/ Emit(t, "after_dl", "err", FileOf(t), DownloadError) \* invalid URL, HEAD failed
            \/ Step(t, "dl_check", "none", FileOf(t))

\* check before the main download
DCheck(t) ==
    /\ pc[t] = "dl_check"
    /\ IF IsCancelled(t)
       THEN Step(t, "after_dl", "cancelled", FileOf(t))
       ELSE Step(t, "dl_get", "none", FileOf(t))

\* the GET request, then File::create of the temporary file
DGet(t) ==
    /\ pc[t] = "dl_get"
    /\ \/ Emit(t, "after_dl", "err", FileOf(t), DownloadError) \* GET failed, non-2xx status
       \/ Step(t, "dl_stream", "none", [FileOf(t) EXCEPT !.tmp = "empty"])

\* one turn of the chunk loop
DStream(t) ==
    /\ pc[t] = "dl_stream"
    /\ \/ Step(t, "dl_final", "none", FileOf(t))         \* the stream has ended
       \/ IF IsCancelled(t)
          THEN Step(t, "after_dl", "cancelled", FileOf(t))
          ELSE \/ Emit(t, "after_dl", "err", FileOf(t), DownloadError) \* stream error
               \/ Step(t, "dl_stream", "none",
                       [FileOf(t) EXCEPT !.tmp = IF @ = "absent" THEN @ ELSE "data"])

\* check before finalizing, flush, metadata and the empty-file test
DFinal(t) ==
    /\ pc[t] = "dl_final"
    /\ IF IsCancelled(t)
       THEN Step(t, "after_dl", "cancelled", FileOf(t))
       ELSE IF FileOf(t).tmp = "data"
            THEN Step(t, "after_dl", "ok", FileOf(t))
            ELSE Emit(t, "after_dl", "err", FileOf(t), DownloadError) \* no metadata, or empty

----------------------------------------------------------------------------
(* mod_download.rs: download_mod_with_cancellation, after the transfer *)

\* what the pipeline does to the temporary file when the transfer did not succeed
DropTempKeep(rec) == rec
DropTemp(rec) == [rec EXCEPT !.tmp = "absent"]

PAfterDownload(t) ==
    /\ pc[t] = "after_dl"
    /\ IF IsCancelled(t)
       THEN Step(t, "remove_token", "cancelled", DropTemp(FileOf(t)))
       ELSE IF result[t] # "ok"
            THEN Step(t, "remove_token", result[t], DropTemp(FileOf(t)))
            ELSE Step(t, "rename", "none", FileOf(t))

\* std::fs::rename of the temporary file to the archive
PRename(t) ==
    /\ pc[t] = "rename"
    /\ \/ Step(t, "remove_token", "err", FileOf(t))      \* rename failed
       \/ /\ FileOf(t).tmp # "absent"
          /\ Step(t, "check_renamed", "none",
                  [FileOf(t) EXCEPT !.tmp = "absent", !.zip = "present"])

PCheckRenamed(t) ==
    /\ pc[t] = "check_renamed"
    /\ IF IsCancelled(t)
       THEN Step(t, "remove_token", "cancelled", [FileOf(t) EXCEPT !.zip = "absent"])
       ELSE Step(t, "validate", "none", FileOf(t))

\* the first 4 bytes are not PK\x03\x04: remove_file of the archive
RejectArchiveKeep(rec) == rec
RejectArchive(rec) == [rec EXCEPT !.zip = "absent"]

\* metadata, the size test, File::open, the header test
PValidate(t) ==
    /\ pc[t] = "validate"
    /\ \/ Emit(t, "remove_token", "err", FileOf(t), DownloadError) \* metadata or open failed
       \/ /\ FileOf(t).zip = "present"
          /\ \/ Emit(t, "remove_token", "err", [FileOf(t) EXCEPT !.zip = "absent"],
                     DownloadError)
             \/ Emit(t, "remove_token", "bad_header", RejectArchive(FileOf(t)),
                     DownloadError)
             \/ Step(t, "check_extract", "none", FileOf(t))

PCheckExtract(t) ==
    /\ pc[t] = "check_extract"
    /\ IF IsCancelled(t)
       THEN Step(t, "remove_token", "cancelled", [FileOf(t) EXCEPT !.zip = "absent"])
       ELSE Step(t, "x_start", "none", FileOf(t))

\* after extract_zip_with_cancellation returned: remove_file of the archive
PAfterExtract(t) ==
    /\ pc[t] = "after_x"
    /\ IF result[t] # "ok"
       THEN Step(t, "drop_dir", result[t], [FileOf(t) EXCEPT !.zip = "absent"])
       ELSE Step(t, "remove_token", "ok", [FileOf(t) EXCEPT !.zip = "absent"])

\* the extraction failed: remove_dir_all of what it left
PDropDir(t) ==
    /\ pc[t] = "drop_dir"
    /\ Step(t, "remove_token", result[t], [FileOf(t) EXCEPT !.dir = "absent"])

----------------------------------------------------------------------------
(* extraction.rs: extract_zip_with_cancellation *)

\* check before starting, the extracting event, create_dir_all
XStart(t) ==
    /\ pc[t] = "x_start"
    /\ IF IsCancelled(t)
       THEN Step(t, "after_x", "cancelled", FileOf(t))
       ELSE \/ Step(t, "after_x", "err", FileOf(t))      \* emit failed: map_err(..)?
            \/ Emit(t, "after_x", "err", FileOf(t),      \* create_dir_all failed
                    <<"extracting">> \o ExtractionError)
            \/ Emit(t, "x_check", "none",
                    [FileOf(t) EXCEPT !.dir = IF @ = "absent" THEN "partial" ELSE @],
                    <<"extracting">>)

\* check after directory creation that returns without remove_dir_all
XCheckKeepsDir(t) ==
    /\ pc[t] = "x_check"
    /\ IF IsCancelled(t)
       THEN Step(t, "after_x", "cancelled", FileOf(t))
       ELSE Step(t, "x_open", "none", FileOf(t))

\* check after directory creation
XCheck(t) ==
    /\ pc[t] = "x_check"
    /\ IF IsCancelled(t)
       THEN Step(t, "after_x", "cancelled", [FileOf(t) EXCEPT !.dir = "absent"])
       ELSE Step(t, "x_open", "none", FileOf(t))

\* File::open and ZipArchive::new
XOpen(t) ==
    /\ pc[t] = "x_open"
    /\ \/ Emit(t, "after_x", "err", FileOf(t), ExtractionError) \* open failed, invalid archive
       \/ /\ FileOf(t).zip = "present"
          /\ Step(t, "x_verify", "none", FileOf(t))

\* check before verification, verify_archive
XVerify(t) ==
    /\ pc[t] = "x_verify"
    /\ IF IsCancelled(t)
       THEN Step(t, "after_x", "cancelled", [FileOf(t) EXCEPT !.dir = "absent"])
       ELSE \/ Emit(t, "after_x", "err", FileOf(t), ExtractionError) \* CRC failure
            \/ Step(t, "x_entry", "none", FileOf(t))

\* one turn of the entry loop
XEntry(t) ==
    /\ pc[t] = "x_entry"
    /\ \/ Step(t, "x_final", "none",                     \* every entry is written
               [FileOf(t) EXCEPT !.dir = IF @ = "absent" THEN @ ELSE "complete"])
       \/ IF IsCancelled(t)
          THEN Step(t, "after_x", "cancelled", [FileOf(t) EXCEPT !.dir = "absent"])
          ELSE \/ Emit(t, "after_x", "err", FileOf(t), ExtractionError) \* entry unreadable, write failed
               \/ Step(t, "x_entry", "none", [FileOf(t) EXCEPT !.dir = "partial"])

\* final check, the completed event
XFinal(t) ==
    /\ pc[t] = "x_final"
    /\ IF IsCancelled(t)
       THEN Step(t, "after_x", "cancelled", [FileOf(t) EXCEPT !.dir = "absent"])
       ELSE \/ Step(t, "after_x", "err", FileOf(t))      \* emit failed: map_err(..)?
            \/ Emit(t, "after_x", "ok", FileOf(t), <<"completed">>)

----------------------------------------------------------------------------
(* DownloadQueue::cancel_download *)

\* a download has begun once its task registered the CancellationToken
Begun(k) == pc[k] \notin {"queued", "insert"}

\* queue.retain(|download| download.filename != filename)
CancelQueue(f) ==
    /\ cpc = "idle"
    /\ ncancel < MaxCancel
    /\ ncancel' = ncancel + 1
    /\ cfile' = f
    /\ queue' = SelectSeq(queue, LAMBDA k : FilenameOf(k) # f)
    /\ earlyCancelled' = earlyCancelled \cup
           {k \in 1..Len(downloads) : FilenameOf(k) = f /\ ~Begun(k)}
    /\ cpc' = "tokens"
    /\ pc' = [k \in Items |->
              IF pc[k] = "queued" /\ FilenameOf(k) = f THEN "dropped" ELSE pc[k]]
    /\ UNCHANGED <<downloads, semaphore, cancel_tokens, cancelled, waiting,
                   result, files, started, ctoken, pvars, ovars, kvars, evars>>

\* was_downloading: cancel_tokens.remove(filename) gave a token
WasDownloadingAlways(token) == TRUE
WasDownloading(token) == token # 0

\* cancel_tokens.remove(filename), token.cancel(); without a token the call
\* returns Ok here
CancelToken ==
    /\ cpc = "tokens"
    /\ IF cancel_tokens[cfile] # 0
       THEN /\ cancelled' = cancelled \cup {cancel_tokens[cfile]}
            /\ ctoken' = cancel_tokens[cfile]
            /\ cancel_tokens' = [cancel_tokens EXCEPT ![cfile] = 0]
       ELSE UNCHANGED <<cancelled, ctoken, cancel_tokens>>
    /\ IF WasDownloading(cancel_tokens[cfile])
       THEN /\ cpc' = "cleanup"
            /\ UNCHANGED cfile
       ELSE /\ cpc' = "idle"
            /\ cfile' = NoFile
    /\ UNCHANGED <<downloads, queue, semaphore, waiting, pc, result, files,
                   started, ncancel, earlyCancelled, pvars, ovars, kvars, evars>>

\* DownloadQueue::cleanup_download_files: in every subdirectory of the download
\* directory, remove <name>.tmp and the file named filename
CleanupSkip(fs, f) == fs
cleanup_download_files(fs, f) ==
    [r \in Repos |-> [fs[r] EXCEPT ![f] = [@ EXCEPT !.tmp = "absent", !.zip = "absent"]]]

CancelCleanup ==
    /\ cpc = "cleanup"
    /\ files' = cleanup_download_files(files, cfile)
    /\ cpc' = "idle"
    /\ ctoken' = 0
    /\ cfile' = NoFile
    /\ UNCHANGED <<downloads, queue, semaphore, cancel_tokens, cancelled, waiting,
                   pc, result, started, ncancel, earlyCancelled, pvars, ovars, kvars, evars>>

----------------------------------------------------------------------------
(* download_mod_with_cancellation as the queue sees it: a call that is     *)
(* entered and returns.  The queue reads neither the files the call writes *)
(* nor its result (it only logs an Err), so under SpecQueue the call is    *)
(* its entry, where the first cancellation check decides whether the       *)
(* transfer begins, and its return; the steps in between and the files are *)
(* the subject of SpecPipeline.                                            *)

PipelineEnter(k) ==
    /\ pc[k] = "start"
    /\ IF IsCancelled(k)
       THEN /\ pc' = [pc EXCEPT ![k] = "remove_token"]
            /\ UNCHANGED started
       ELSE /\ pc' = [pc EXCEPT ![k] = "running"]
            /\ started' = started \cup {k}
    /\ UNCHANGED <<downloads, queue, semaphore, cancel_tokens, cancelled, waiting,
                   result, files, cpc, cfile, ctoken, ncancel, earlyCancelled, pvars, ovars, kvars, evars>>

PipelineReturn(k) ==
    /\ pc[k] = "running"
    /\ pc' = [pc EXCEPT ![k] = "remove_token"]
    /\ UNCHANGED <<downloads, queue, semaphore, cancel_tokens, cancelled, waiting,
                   result, files, started, cpc, cfile, ctoken, ncancel, earlyCancelled, pvars, ovars, kvars, evars>>

----------------------------------------------------------------------------
(* The download queue as a system *)

QInit ==
    /\ downloads = <<>>
    /\ queue = <<>>
    /\ semaphore = MAX_CONCURRENT_DOWNLOADS
    /\ cancel_tokens = [f \in Filenames |-> 0]
    /\ cancelled = {}
    /\ waiting = 0
    /\ pc = [k \in Items |-> "idle"]
    /\ result = [k \in Items |-> "none"]
    /\ files = [r \in Repos |-> [f \in Filenames |-> NoFiles]]
    /\ started = {}
    /\ cpc = "idle"
    /\ cfile = NoFile
    /\ ctoken = 0
    /\ ncancel = 0
    /\ earlyCancelled = {}
    /\ PatchUnused
    /\ CatalogUnused
    /\ OverlayUnused
    /\ EventsUnused

QNext ==
    \/ \E f \in Filenames : Enqueue(f, "r1")
    \/ \E f \in Filenames : CancelQueue(f)
    \/ CancelToken
    \/ CancelCleanup
    \/ Drain
    \/ \E k \in Items :
        \/ InsertToken(k) \/ Conclude(k)
        \/ PipelineEnter(k) \/ PipelineReturn(k)

SpecQueue == QInit /\ [][QNext]_vars

\* The tokio runtime polls every spawned task that can go on, a cancel_download
\* call that was entered runs to its return, and every pipeline run returns.
\* Nothing obliges the user to enqueue or to cancel.
QFairness ==
    /\ WF_vars(Drain)
    /\ WF_vars(CancelToken)
    /\ WF_vars(CancelCleanup)
    /\ \A k \in Items :
          /\ WF_vars(InsertToken(k))
          /\ WF_vars(PipelineEnter(k))
          /\ WF_vars(PipelineReturn(k))
          /\ WF_vars(Conclude(k))

\* the user enqueues a.zip, b.zip, a.zip, ... and cancels either at any time
FNext ==
    \/ \E f \in {IF Len(downloads) % 2 = 0 THEN "a.zip" ELSE "b.zip"} : Enqueue(f, "r1")
    \/ \E f \in Filenames : CancelQueue(f)
    \/ CancelToken
    \/ CancelCleanup
    \/ Drain
    \/ \E k \in Items :
        \/ InsertToken(k) \/ Conclude(k)
        \/ PipelineEnter(k) \/ PipelineReturn(k)

SpecQueueFair == QInit /\ [][FNext]_vars /\ QFairness

----------------------------------------------------------------------------
(* One download, popped by the first drain task, run step by step against  *)
(* cancel_download calls.                                                  *)

PInit ==
    /\ \E f \in Filenames, r \in Repos :
          downloads = <<[filename |-> f, repo_url |-> r]>>
    /\ queue = <<>>
    /\ semaphore = MAX_CONCURRENT_DOWNLOADS - 1
    /\ cancel_tokens = [f \in Filenames |-> 0]
    /\ cancelled = {}
    /\ waiting = 0
    /\ pc = [k \in Items |-> IF k = 1 THEN "insert" ELSE "idle"]
    /\ result = [k \in Items |-> "none"]
    /\ \E d \in {"absent", "complete"} :
          /\ files = [r \in Repos |-> [f \in Filenames |-> [NoFiles EXCEPT !.dir = d]]]
          /\ installed = d
    /\ started = {}
    /\ cpc = "idle"
    /\ cfile = NoFile
    /\ ctoken = 0
    /\ ncancel = 0
    /\ earlyCancelled = {}
    /\ PatchUnused
    /\ CatalogUnused
    /\ OverlayUnused
    /\ emitted = [k \in Items |-> <<>>]
    /\ TransferUnused
    /\ EntriesUnused

PNext ==
    \/ \E f \in Filenames : CancelQueue(f)
    \/ CancelToken
    \/ CancelCleanup
    \/ \E t \in Items :
        \/ InsertToken(t) \/ Conclude(t)
        \/ PStart(t) \/ PClean(t) \/ DHead(t) \/ DCheck(t) \/ DGet(t) \/ DStream(t)
        \/ DFinal(t) \/ PAfterDownload(t) \/ PRename(t) \/ PCheckRenamed(t)
        \/ PValidate(t) \/ PCheckExtract(t) \/ XStart(t) \/ XCheck(t) \/ XOpen(t)
        \/ XVerify(t) \/ XEntry(t) \/ XFinal(t) \/ PAfterExtract(t) \/ PDropDir(t)

SpecPipeline == PInit /\ [][PNext]_vars

----------------------------------------------------------------------------
(***************************************************************************)
(* The patch ledger (mod_enablement/patching.rs).  A file content is a     *)
(* sequence of characters; the marker text and the "-- " prefix of the     *)
(* info line are one character each, the info JSON is the four characters  *)
(* { mod_name version }.                                                   *)
(***************************************************************************)
PATCH_MARKER == "#"

Mods == {"A", "B"}
Versions == {"1", "2"}

IsWhitespace(ch) == ch \in {" ", "\n"}

RECURSIVE trim_end(_)
trim_end(s) ==
    IF s = <<>> THEN s
    ELSE IF IsWhitespace(s[Len(s)]) THEN trim_end(SubSeq(s, 1, Len(s) - 1)) ELSE s

RECURSIVE trim_start(_)
trim_start(s) ==
    IF s = <<>> THEN s
    ELSE IF IsWhitespace(s[1]) THEN trim_start(Tail(s)) ELSE s

trim(s) == trim_start(trim_end(s))

\* str::lines: split at every "\n"; a final line ending yields no empty last line
RECURSIVE lines(_)
lines(s) ==
    IF s = <<>> THEN <<>>
    ELSE IF \E i \in 1..Len(s) : s[i] = "\n"
         THEN LET i == CHOOSE j \in 1..Len(s) :
                           s[j] = "\n" /\ \A h \in 1..(j - 1) : s[h] # "\n"
              IN <<SubSeq(s, 1, i - 1)>> \o lines(SubSeq(s, i + 1, Len(s)))
         ELSE <<s>>

\* [&str]::join("\n")
RECURSIVE join(_)
join(ls) ==
    IF ls = <<>> THEN <<>>
    ELSE IF Len(ls) = 1 THEN ls[1]
    ELSE ls[1] \o <<"\n">> \o join(Tail(ls))

\* line.trim() == PATCH_MARKER
IsMarkerLine(line) == trim(line) = <<PATCH_MARKER>>

\* json_line.trim_start_matches("-- ")
RECURSIVE trim_start_matches(_)
trim_start_matches(line) ==
    IF line # <<>> /\ line[1] = "-- " THEN trim_start_matches(Tail(line)) ELSE line

\* json!({"mod_name": mod_name, "version": version}) as it is displayed
info_json(m, v) == <<"{", m, v, "}">>

\* serde_json::from_str of the info line gives mod_name m and version v
IsInfoOf(json_line, m, v) == trim(trim_start_matches(json_line)) = info_json(m, v)

\* for line in lines.by_ref() { if line.trim() == PATCH_MARKER { break; } }:
\* what is left of the lines after the loop
RECURSIVE SkipBlock(_)
SkipBlock(ls) ==
    IF ls = <<>> THEN <<>>
    ELSE IF IsMarkerLine(ls[1]) THEN Tail(ls) ELSE SkipBlock(Tail(ls))

\* the lines the loop went through, without the closing marker
RECURSIVE TakeBlockUnclosed(_)
TakeBlockUnclosed(ls) ==
    IF ls = <<>> THEN <<>>
    ELSE IF IsMarkerLine(ls[1]) THEN <<>> ELSE <<ls[1]>> \o TakeBlockUnclosed(Tail(ls))

\* the lines the loop went through, the closing marker included
RECURSIVE TakeBlock(_)
TakeBlock(ls) ==
    IF ls = <<>> THEN <<>>
    ELSE IF IsMarkerLine(ls[1]) THEN <<ls[1]>> ELSE <<ls[1]>> \o TakeBlock(Tail(ls))

RECURSIVE CheckLines(_, _, _)
CheckLines(ls, m, v) ==
    IF ls = <<>> THEN FALSE
    ELSE IF IsMarkerLine(ls[1])
         THEN IF Len(ls) = 1 THEN FALSE
              ELSE IF IsInfoOf(ls[2], m, v) THEN TRUE
              ELSE CheckLines(SkipBlock(Tail(Tail(ls))), m, v)
         ELSE CheckLines(Tail(ls), m, v)

CheckNever(c, m, v) == FALSE
check_lua_patch(c, m, v) == CheckLines(lines(c), m, v)

add_lua_patch(c, m, v, p) ==
    trim_end(c) \o <<"\n", "\n", PATCH_MARKER, "\n", "-- ">> \o info_json(m, v)
        \o <<"\n">> \o trim(p) \o <<"\n", PATCH_MARKER>>

\* the lines pushed to result
RECURSIVE RemoveLines(_, _, _)
RemoveLines(ls, m, v) ==
    IF ls = <<>> THEN <<>>
    ELSE IF IsMarkerLine(ls[1])
         THEN IF Len(ls) = 1 THEN <<>>        \* a marker as last line is not pushed
              ELSE IF IsInfoOf(ls[2], m, v)
                   THEN RemoveLines(SkipBlock(Tail(Tail(ls))), m, v)
                   ELSE <<ls[1], ls[2]>> \o TakeBlock(Tail(Tail(ls)))
                            \o RemoveLines(SkipBlock(Tail(Tail(ls))), m, v)
         ELSE <<ls[1]>> \o RemoveLines(Tail(ls), m, v)

remove_lua_patch(c, m, v) == join(RemoveLines(lines(c), m, v))

----------------------------------------------------------------------------
(* file_operations.rs on one lua file *)

\* patch_lua_file
PatchLuaFile ==
    /\ ppc = "start"
    /\ IF check_lua_patch(content, mod_name, version)
       THEN /\ ppc' = "present"
            /\ UNCHANGED content
       ELSE /\ ppc' = "patched"
            /\ content' = add_lua_patch(content, mod_name, version, patch)
    /\ UNCHANGED <<mod_name, version, patch, original, qvars, ovars, kvars, evars>>

\* patch_lua_file called again with the same arguments
PatchLuaFileAgain ==
    /\ ppc \in {"patched", "present"}
    /\ ppc' = "twice"
    /\ content' = IF check_lua_patch(content, mod_name, version) THEN content
                  ELSE add_lua_patch(content, mod_name, version, patch)
    /\ UNCHANGED <<mod_name, version, patch, original, qvars, ovars, kvars, evars>>

\* remove_lua_patch_from_file
RemoveLuaPatchFromFile ==
    /\ ppc \in {"patched", "present"}
    /\ ppc' = IF ppc = "patched" THEN "removed" ELSE "removed_present"
    /\ content' = remove_lua_patch(content, mod_name, version)
    /\ UNCHANGED <<mod_name, version, patch, original, qvars, ovars, kvars, evars>>

QueueUnused ==
    /\ queue = <<>> /\ downloads = <<>> /\ semaphore = 0
    /\ cancel_tokens = <<>> /\ cancelled = {} /\ waiting = 0
    /\ pc = <<>> /\ result = <<>> /\ files = <<>> /\ started = {}
    /\ cpc = "unused" /\ cfile = "" /\ ctoken = 0 /\ ncancel = 0
    /\ earlyCancelled = {}

\* the contents of up to n characters
RECURSIVE Texts(_)
Texts(n) ==
    IF n = 0 THEN {<<>>}
    ELSE Texts(n - 1) \cup
         {Append(t, ch) : t \in {u \in Texts(n - 1) : Len(u) = n - 1},
                          ch \in {"x", " ", "\n", PATCH_MARKER}}

Patches == {<<"p">>, <<" ", "p", "\n">>}

\* a lua file: any short text, or one that a mod was patched into before
LInit ==
    /\ \E t \in Texts(MaxLen) :
          \/ content = t
          \/ \E m \in Mods, p \in Patches : content = add_lua_patch(t, m, "1", p)
    /\ mod_name \in Mods
    /\ version \in Versions
    /\ patch \in Patches
    /\ ppc = "start"
    /\ original = content
    /\ QueueUnused
    /\ OverlayUnused
    /\ CatalogUnused
    /\ EventsUnused

LNext == PatchLuaFile \/ PatchLuaFileAgain \/ RemoveLuaPatchFromFile

SpecPatch == LInit /\ [][LNext]_vars

\* the number of Patch Blocks a lua file holds when the mod's turn comes
MaxBlocks == 2

\* the (mod_name, version) of the blocks of a file, in the order they were added
RECURSIVE BlockSeqs(_)
BlockSeqs(n) ==
    IF n = 0 THEN {<<>>}
    ELSE BlockSeqs(n - 1) \cup
         {Append(q, <<m, v>>) : q \in {u \in BlockSeqs(n - 1) : Len(u) = n - 1},
                                m \in Mods, v \in Versions}

\* the file that the mods of q, one after the other, were patched into
RECURSIVE Patched(_, _)
Patched(t, q) ==
    IF q = <<>> THEN t
    ELSE add_lua_patch(Patched(t, SubSeq(q, 1, Len(q) - 1)),
                       q[Len(q)][1], q[Len(q)][2], <<"p">>)

\* a lua file that several mods, this one perhaps among them, have patched
NInit ==
    /\ \E t \in Texts(MaxLen - 1), q \in BlockSeqs(MaxBlocks) : content = Patched(t, q)
    /\ mod_name \in Mods
    /\ version \in Versions
    /\ patch = <<"p">>
    /\ ppc = "start"
    /\ original = content
    /\ QueueUnused
    /\ OverlayUnused
    /\ CatalogUnused
    /\ EventsUnused

SpecBlocks == NInit /\ [][LNext]_vars

----------------------------------------------------------------------------
(***************************************************************************)
(* The overlay engine (mod_enablement/directory_ops.rs).  The payload of a *)
(* mod and the target tree are trees over the paths below: K is a          *)
(* directory at level 2, R one at level 3, and under R lie a lua file, a   *)
(* file of another extension, a directory and a file with no extension;    *)
(* F is a file at level 2.  read_dir lists them in this order.             *)
(***************************************************************************)
K == "K"
R == "K/R"
L == "K/R/l.lua"
T == "K/R/t.txt"
D == "K/R/d"
N == "K/R/n"
F == "f.txt"

Paths == {K, R, L, T, D, N, F}

\* the entries of the payload root <mod_dir>/<mod_name> of each mod
Payload(m) ==
    CASE m = "A" -> {K, R, L, T, D, N, F}
      [] m = "B" -> {K, R, D, F}
      [] m = "S" -> {K, R, L, D}
      [] OTHER -> {K, R, L, T, D, F}

\* the lua file a mod's archive carries
PayloadLua(m) == IF m = "A" THEN <<"p">> ELSE <<"q", "\n">>

\* entries of the target tree
None == [kind |-> "none", to |-> "", text |-> <<>>]
Dir == [kind |-> "dir", to |-> "", text |-> <<>>]
\* a directory that also holds entries of the user's own
UserDir == [kind |-> "userdir", to |-> "", text |-> <<>>]
File(c) == [kind |-> "file", to |-> "", text |-> c]
\* a symlink to the entry of the same path in the payload root of mod m
Link(m) == [kind |-> "link", to |-> m, text |-> <<>>]

\* a ModInstallation directory: valid when VERSION.txt and README.txt are in it
NoInst == [present |-> FALSE, valid |-> FALSE, version |-> "",
           enabled |-> FALSE, enabling |-> FALSE]
Extracted(v, ok) == [present |-> TRUE, valid |-> ok, version |-> v,
                     enabled |-> FALSE, enabling |-> FALSE]

\* the file system as the commands see it; ok is the Result of the traversal
World == [tgt |-> tgt, src |-> src, inst |-> inst, ok |-> TRUE]

Failed(w) == [w EXCEPT !.ok = FALSE]

\* Path::exists, which follows symlinks
Exists(w, p) ==
    \/ w.tgt[p].kind \in {"dir", "userdir", "file"}
    \/ /\ w.tgt[p].kind = "link"
       /\ w.inst[w.tgt[p].to].present
       /\ p \in Payload(w.tgt[p].to)

is_symlink(w, p) == w.tgt[p].kind = "link"

verify_symlink(w, p, m) == is_symlink(w, p) /\ w.tgt[p].to = m

\* symlink(2) fails when anything, a dangling link included, is at dest
create_symlink(w, p, m) ==
    IF w.tgt[p].kind # "none" THEN Failed(w) ELSE [w EXCEPT !.tgt[p] = Link(m)]

remove_symlink(w, p) == [w EXCEPT !.tgt[p] = None]

\* fs::read_to_string and fs::write, which follow symlinks
ReadText(w, p) ==
    IF w.tgt[p].kind = "link" THEN w.src[w.tgt[p].to] ELSE w.tgt[p].text

WriteText(w, p, c) ==
    IF w.tgt[p].kind = "link"
    THEN [w EXCEPT !.src[w.tgt[p].to] = c]
    ELSE [w EXCEPT !.tgt[p] = File(c)]

\* file_operations.rs: patch_lua_file, with the mod's lua file as the patch
patch_lua_file(w, p, m, v) ==
    CHOOSE r \in {IF check_lua_patch(c, m, v) THEN w
                  ELSE WriteText(w, p, add_lua_patch(c, m, v, w.src[m])) :
                     c \in {ReadText(w, p)}} : TRUE

\* file_operations.rs: remove_lua_patch_from_file
remove_lua_patch_from_file(w, p, m, v) ==
    CHOOSE r \in {WriteText(w, p, remove_lua_patch(c, m, v)) :
                     c \in {ReadText(w, p)}} : TRUE

\* process_deep_directory, the entries of R one by one
DeepLua(w, m, v) ==
    IF Exists(w, L) THEN patch_lua_file(w, L, m, v) ELSE create_symlink(w, L, m)

DeepFile(w, m) ==
    IF Exists(w, T) THEN Failed(w)                     \* FileConflictError
    ELSE create_symlink(w, T, m)

DeepDir(w, m) ==
    IF Exists(w, D)
    THEN IF is_symlink(w, D)
         THEN IF verify_symlink(w, D, m) THEN w
              ELSE [w EXCEPT !.tgt[D] = Link(m)]       \* remove_symlink, create_symlink
         ELSE w                    \* a real directory: recurse, the payload's is empty
    ELSE create_symlink(w, D, m)

process_deep_directory(w, m, v) ==
    CHOOSE r \in
        {IF D \in Payload(m) /\ w2.ok THEN DeepDir(w2, m) ELSE w2 :
            w2 \in {IF T \in Payload(m) /\ w1.ok THEN DeepFile(w1, m) ELSE w1 :
                w1 \in {IF L \in Payload(m) THEN DeepLua(w, m, v) ELSE w}}} :
        TRUE                       \* N has no extension: nothing is done for it

\* cleanup_deep_directory, the entries of R one by one
CleanLua(w, m, v) ==
    IF ~Exists(w, L) THEN w
    ELSE IF verify_symlink(w, L, m) THEN remove_symlink(w, L)
    ELSE CHOOSE r \in
             {IF trim(ReadText(w1, L)) = <<>> THEN [w1 EXCEPT !.tgt[L] = None] ELSE w1 :
                 w1 \in {remove_lua_patch_from_file(w, L, m, v)}} : TRUE

CleanFile(w, m) ==
    IF Exists(w, T) /\ verify_symlink(w, T, m) THEN remove_symlink(w, T) ELSE w

CleanDir(w, m) ==
    IF ~Exists(w, D) THEN w
    ELSE IF verify_symlink(w, D, m) THEN remove_symlink(w, D)
    ELSE IF w.tgt[D].kind = "dir" THEN [w EXCEPT !.tgt[D] = None]  \* empty: remove_dir
    ELSE w

cleanup_deep_directory(w, m, v) ==
    IF ~Exists(w, R) THEN w
    ELSE CHOOSE r \in
             {IF D \in Payload(m) THEN CleanDir(w2, m) ELSE w2 :
                 w2 \in {IF T \in Payload(m) THEN CleanFile(w1, m) ELSE w1 :
                     w1 \in {IF L \in Payload(m) THEN CleanLua(w, m, v) ELSE w}}} : TRUE

\* read_dir(dest).next_entry() is None
IsEmptyDir(w, p) ==
    /\ w.tgt[p].kind = "dir"
    /\ \A c \in {L, T, D, N} : w.tgt[c].kind = "none"

\* process_directory at level 3, called on K: R is its one directory
ProcessLevel3(w, m, v, cleanup) ==
    IF R \notin Payload(m) THEN w
    ELSE IF cleanup
    THEN CHOOSE r \in
             {IF ~Exists(w1, R) THEN Failed(w1)        \* read_dir of a missing directory
              ELSE IF IsEmptyDir(w1, R) THEN [w1 EXCEPT !.tgt[R] = None]
              ELSE w1 :
                 w1 \in {cleanup_deep_directory(w, m, v)}} : TRUE
    ELSE CHOOSE r \in
             {process_deep_directory(w1, m, v) :
                 w1 \in {IF Exists(w, R) THEN w ELSE [w EXCEPT !.tgt[R] = Dir]}} : TRUE

\* process_directory, a file at level 2
ProcessFile(w, p, m, cleanup) ==
    IF cleanup
    THEN IF Exists(w, p) /\ verify_symlink(w, p, m) THEN remove_symlink(w, p) ELSE w
    ELSE IF Exists(w, p)
         THEN IF is_symlink(w, p)
              THEN IF verify_symlink(w, p, m) THEN w
                   ELSE [w EXCEPT !.tgt[p] = Link(m)]  \* remove_symlink, create_symlink
              ELSE Failed(w)                           \* FileConflictError
         ELSE create_symlink(w, p, m)

\* process_directory at level 2, called on the payload root and the target tree
process_directory(w, m, v, cleanup) ==
    IF ~w.inst[m].present THEN Failed(w)               \* read_dir(source_dir)
    ELSE CHOOSE r \in
             {IF F \in Payload(m) /\ w2.ok THEN ProcessFile(w2, F, m, cleanup) ELSE w2 :
                 w2 \in {IF K \in Payload(m) THEN ProcessLevel3(w1, m, v, cleanup) ELSE w1 :
                     w1 \in {IF Exists(w, K) THEN w ELSE [w EXCEPT !.tgt[K] = Dir]}}} : TRUE

process_second_level_dirs(w, m, v, cleanup) == process_directory(w, m, v, cleanup)

----------------------------------------------------------------------------
(* The mod management commands (mod_management.rs), on one profile whose   *)
(* target directory exists and with no sideload directory.                 *)

\* the enable_mod invocations that may be in progress at once
MaxEnablers == 2

NoSnap == [mod |-> "", tree |-> <<>>, stage |-> "none"]

\* what a command that returned leaves in `last`: its result, how its download
\* went (arg), the markers of its mod before the call (w0) and the
\* ModInstallation after it (w1)
Ret(op, m, res, arg, w0, w1) ==
    [op |-> op, mod |-> m, res |-> res, arg |-> arg,
     was |-> w0.inst[m].enabled, had |-> w0.inst[m].enabling,
     now |-> w1.inst[m].enabled, kept |-> w1.inst[m].present,
     ver |-> w1.inst[m].version]

NoRet == [op |-> "none", mod |-> "", res |-> "", arg |-> "",
          was |-> FALSE, had |-> FALSE, now |-> FALSE, kept |-> FALSE, ver |-> ""]

\* the bytes of a VERSION.txt that fs::read_to_string rejects (not UTF-8)
NotUtf8 == "not-utf8"

\* get_mod_version: fs::read_to_string(VERSION.txt) returns Ok
VersionRead(w, m) == w.inst[m].present /\ w.inst[m].version # NotUtf8

\* find_mod_dir and verify_mod_structure
FindOnly(w, m) == IF ~w.inst[m].present THEN "not_found" ELSE "go"
FindAndVerify(w, m) ==
    IF ~w.inst[m].present THEN "not_found"
    ELSE IF ~w.inst[m].valid THEN "bad_structure"
    ELSE "go"

\* enable_mod up to the write of ENABLING: "go" when it goes on
EnableChecksBlind(w, m) == FindAndVerify(w, m)
EnableChecksUnguarded(w, m) ==
    IF FindAndVerify(w, m) # "go" THEN FindAndVerify(w, m)
    ELSE IF w.inst[m].enabled THEN "already_enabled"
    ELSE "go"
EnableChecks(w, m) ==
    IF FindAndVerify(w, m) # "go" THEN FindAndVerify(w, m)
    ELSE IF w.inst[m].enabled THEN "already_enabled"
    ELSE IF w.inst[m].enabling THEN "being_enabled"
    ELSE "go"

\* the projection, and on its failure the reversing traversal, whose own
\* failure is only logged
ProjectOrReverse(w, m) ==
    CHOOSE r \in
        {IF pr.ok THEN pr
         ELSE Failed(process_second_level_dirs(
                         [pr EXCEPT !.ok = TRUE], m, w.inst[m].version, TRUE)) :
            pr \in {process_second_level_dirs(w, m, w.inst[m].version, FALSE)}} : TRUE

\* fs::remove_file(&enabling_path), whose failure is only logged
RemoveEnabling(w, m) ==
    IF w.inst[m].present THEN [w EXCEPT !.inst[m].enabling = FALSE] ELSE w

\* enable_mod run from call to return with nothing in between
enable_mod(w, m) ==
    IF EnableChecks(w, m) # "go" THEN [w |-> w, res |-> EnableChecks(w, m)]
    ELSE IF ~VersionRead(w, m)      \* get_mod_version(&mod_dir)?
    THEN [w |-> [w EXCEPT !.inst[m].enabling = TRUE], res |-> "version_unreadable"]
    ELSE CHOOSE r \in
             {IF w1.ok
              THEN [w |-> [w1 EXCEPT !.inst[m].enabling = FALSE, !.inst[m].enabled = TRUE],
                    res |-> "ok"]
              ELSE [w |-> [RemoveEnabling(w1, m) EXCEPT !.ok = TRUE],
                    res |-> "projection_failed"] :
                 w1 \in {ProjectOrReverse([w EXCEPT !.inst[m].enabling = TRUE], m)}} : TRUE

\* disable_mod
disable_mod(w, m) ==
    IF FindAndVerify(w, m) # "go" THEN [w |-> w, res |-> FindAndVerify(w, m)]
    ELSE IF ~w.inst[m].enabled THEN [w |-> w, res |-> "already_disabled"]
    ELSE CHOOSE r \in
             {IF w1.ok
              THEN [w |-> [w1 EXCEPT !.inst[m].enabled = FALSE], res |-> "ok"]
              ELSE [w |-> [w1 EXCEPT !.ok = TRUE], res |-> "cleanup_failed"] :
                 w1 \in {process_second_level_dirs(w, m, w.inst[m].version, TRUE)}} : TRUE

IsOk(res) == res \in {"ok", "already_enabled", "already_disabled"}

\* delete_mod: the disable of a mod that is enabled
DisableFirstSkipped(w, m) == [w |-> w, res |-> "ok"]
DisableFirst(w, m) == disable_mod(w, m)

\* delete_mod
delete_mod(w, m) ==
    IF ~w.inst[m].present THEN [w |-> w, res |-> "not_found"]
    ELSE CHOOSE r \in
             {IF ~IsOk(d.res) THEN [w |-> d.w, res |-> "disable_failed"]
              ELSE [w |-> [d.w EXCEPT !.inst[m] = NoInst], res |-> "ok"] :
                 d \in {IF w.inst[m].enabled THEN DisableFirst(w, m)
                        ELSE [w |-> w, res |-> "ok"]}} : TRUE

\* mod_download.rs: download_mod.  dl = "early": it failed before
\* clean_existing_mod; "failed": after it, the directory is gone; "ok": the
\* archive of version v was extracted, with (ok) or without its README.txt
download_mod(w, m, dl, v, ok) ==
    IF dl = "early" THEN w
    ELSE IF dl = "failed" THEN [w EXCEPT !.inst[m] = NoInst]
    ELSE [w EXCEPT !.inst[m] = Extracted(v, ok), !.src[m] = PayloadLua(m)]

\* update_mod: the test of the ENABLING marker
EnablingTest(w, m) == w.inst[m].enabling

\* update_mod: the re-enable after a successful download
ReEnableSkipped(w, m) == [w |-> w, res |-> "ok"]
ReEnable(w, m) == enable_mod(w, m)

\* update_mod
update_mod(w, m, dl, v, ok) ==
    IF ~w.inst[m].present THEN [w |-> w, res |-> "not_found"]
    ELSE IF ~EnablingTest(w, m)     \* fs::metadata(enabling_path).map_err(..)?
    THEN [w |-> w, res |-> "being_enabled"]
    ELSE CHOOSE r \in
             {IF ~IsOk(d.res) THEN [w |-> d.w, res |-> "disable_failed"]
              ELSE CHOOSE u \in
                       {IF dl = "ok"
                        THEN IF ~w.inst[m].enabled THEN [w |-> w1, res |-> "ok"]
                             ELSE CHOOSE t \in
                                      {IF IsOk(e.res) THEN [w |-> e.w, res |-> "ok"]
                                       ELSE [w |-> e.w, res |-> "enable_failed"] :
                                          e \in {ReEnable(w1, m)}} : TRUE
                        ELSE IF ~w.inst[m].enabled THEN [w |-> w1, res |-> "download_failed"]
                             ELSE [w |-> enable_mod(w1, m).w, res |-> "download_failed"] :
                           w1 \in {download_mod(d.w, m, dl, v, ok)}} : TRUE :
                 d \in {IF w.inst[m].enabled THEN disable_mod(w, m)
                        ELSE [w |-> w, res |-> "ok"]}} : TRUE

----------------------------------------------------------------------------
(* The commands as steps.  enable_mod is run in the steps between which    *)
(* another command can act on the markers; the other commands run whole.   *)

Apply(w) ==
    /\ tgt' = w.tgt
    /\ src' = w.src
    /\ inst' = w.inst

\* an enable_mod invocation: the statement it is at, its mod_name, process_result
Call(at, m, r) == [at |-> at, mod |-> m, res |-> r]

CallStates ==
    {Call(at, m, "none") : at \in {"mark", "project"}, m \in Mods}
    \cup {Call(at, m, r) : at \in {"unmark", "finish"}, m \in Mods, r \in {"ok", "err"}}

RECURSIVE CountCalls(_)
CountCalls(S) ==
    IF S = {} THEN 0
    ELSE CHOOSE n \in {calls[c] + CountCalls(S \ {c}) : c \in {CHOOSE d \in S : TRUE}} :
            TRUE

\* the invocation at c moves on to d
Move(c, d) == calls' = [calls EXCEPT ![c] = @ - 1, ![d] = @ + 1]

\* the invocation at c returns res
EnableReturn(c, res, w1) ==
    /\ calls' = [calls EXCEPT ![c] = @ - 1]
    /\ last' = Ret("enable", c.mod, res, "", World, w1)

\* enable_mod is called: find_mod_dir, verify_mod_structure, the two marker tests
EnableBegin(m) ==
    /\ CountCalls(CallStates) < MaxEnablers
    /\ IF EnableChecks(World, m) = "go"
       THEN /\ calls' = [calls EXCEPT ![Call("mark", m, "none")] = @ + 1]
            /\ UNCHANGED last
       ELSE /\ last' = Ret("enable", m, EnableChecks(World, m), "", World, World)
            /\ UNCHANGED calls
    /\ UNCHANGED <<tgt, src, inst, snap, qvars, pvars, kvars, evars>>

\* fs::write(&enabling_path, "")
EnableMark(m) ==
    /\ calls[Call("mark", m, "none")] > 0
    /\ IF inst[m].present
       THEN /\ inst' = [inst EXCEPT ![m].enabling = TRUE]
            /\ Move(Call("mark", m, "none"), Call("project", m, "none"))
            /\ UNCHANGED last
       ELSE /\ EnableReturn(Call("mark", m, "none"), "io_error", World)
            /\ UNCHANGED inst
    /\ UNCHANGED <<tgt, src, snap, qvars, pvars, kvars, evars>>

\* get_mod_version, the projection and, when it failed, the reversing traversal
EnableProject(m) ==
    /\ calls[Call("project", m, "none")] > 0
    /\ IF VersionRead(World, m)
       THEN \E w \in {ProjectOrReverse(World, m)} :
               /\ Apply(w)
               /\ Move(Call("project", m, "none"),
                       Call("unmark", m, IF w.ok THEN "ok" ELSE "err"))
               /\ snap' = IF w.ok
                          THEN [mod |-> m, tree |-> tgt, stage |-> "projected"]
                          ELSE NoSnap
               /\ UNCHANGED last
       ELSE /\ EnableReturn(Call("project", m, "none"),
                            IF inst[m].present THEN "version_unreadable"
                            ELSE "io_error", World)
            /\ UNCHANGED <<tgt, src, inst, snap>>
    /\ UNCHANGED <<qvars, pvars, kvars, evars>>

\* fs::remove_file(&enabling_path)
EnableUnmark(m, r) ==
    /\ calls[Call("unmark", m, r)] > 0
    /\ inst' = RemoveEnabling(World, m).inst
    /\ Move(Call("unmark", m, r), Call("finish", m, r))
    /\ UNCHANGED <<tgt, src, last, snap, qvars, pvars, kvars, evars>>

\* process_result?, then fs::write(&enabled_path, "")
EnableFinish(m, r) ==
    /\ calls[Call("finish", m, r)] > 0
    /\ IF r = "ok" /\ inst[m].present
       THEN /\ inst' = [inst EXCEPT ![m].enabled = TRUE]
            /\ EnableReturn(Call("finish", m, r), "ok",
                            [World EXCEPT !.inst[m].enabled = TRUE])
            /\ snap' = IF snap.mod = m /\ snap.stage = "projected"
                       THEN [snap EXCEPT !.stage = "enabled"]
                       ELSE snap
       ELSE /\ EnableReturn(Call("finish", m, r),
                            IF r = "ok" THEN "io_error" ELSE "projection_failed", World)
            /\ UNCHANGED <<inst, snap>>
    /\ UNCHANGED <<tgt, src, qvars, pvars, kvars, evars>>

Disable(m) ==
    \E r \in {disable_mod(World, m)} :
       /\ Apply(r.w)
       /\ last' = Ret("disable", m, r.res, "", World, r.w)
       /\ snap' = IF r.res \in {"ok", "cleanup_failed"}
                  THEN IF r.res = "ok" /\ snap.mod = m /\ snap.stage = "enabled"
                       THEN [snap EXCEPT !.stage = "disabled"]
                       ELSE NoSnap
                  ELSE snap
       /\ UNCHANGED <<calls, qvars, pvars, kvars, evars>>

Delete(m) ==
    \E r \in {delete_mod(World, m)} :
       /\ Apply(r.w)
       /\ last' = Ret("delete", m, r.res, "", World, r.w)
       /\ snap' = NoSnap
       /\ UNCHANGED <<calls, qvars, pvars, kvars, evars>>

Update(m, dl, v, ok) ==
    \E r \in {update_mod(World, m, dl, v, ok)} :
       /\ Apply(r.w)
       /\ last' = Ret("update", m, r.res, dl, World, r.w)
       /\ snap' = NoSnap
       /\ UNCHANGED <<calls, qvars, pvars, kvars, evars>>

\* a download of the mod through the queue has run: clean_existing_mod, then
\* the extraction or a failure
DownloadMod(m, dl, v, ok) ==
    \E w \in {download_mod(World, m, dl, v, ok)} :
       /\ Apply(w)
       /\ last' = Ret("download", m, dl, dl, World, w)
       /\ snap' = NoSnap
       /\ UNCHANGED <<calls, qvars, pvars, kvars, evars>>

\* the target trees the user may start with
Tree(r, l, t, d, f) ==
    [p \in Paths |->
        CASE p = K -> IF r = None THEN None ELSE Dir
          [] p = R -> r
          [] p = L -> l
          [] p = T -> t
          [] p = D -> d
          [] p = N -> None
          [] p = F -> f]

InitialTrees ==
    {Tree(None, None, None, None, None),
     Tree(UserDir, File(<<"x">>), None, Dir, None),
     Tree(Dir, File(<<"x", "\n">>), File(<<"u">>), None, None)}

OInit ==
    /\ tgt \in InitialTrees
    /\ src = [m \in Mods |-> PayloadLua(m)]
    /\ inst = [m \in Mods |-> Extracted("1", TRUE)]
    /\ calls = [c \in CallStates |-> 0]
    /\ last = NoRet
    /\ snap = NoSnap
    /\ QueueUnused
    /\ PatchUnused
    /\ CatalogUnused
    /\ EventsUnused

\* enable_mod and disable_mod of two mods whose payloads overlap
ONext ==
    \/ \E m \in Mods :
        \/ EnableBegin(m) \/ EnableMark(m) \/ EnableProject(m)
        \/ \E r \in {"ok", "err"} : EnableUnmark(m, r) \/ EnableFinish(m, r)
    \/ \E m \in Mods : Disable(m)

SpecOverlay == OInit /\ [][ONext]_vars

\* the mods as extracted from archives whose VERSION.txt may not be UTF-8
VInit ==
    /\ tgt \in InitialTrees
    /\ src = [m \in Mods |-> PayloadLua(m)]
    /\ inst \in [Mods -> {Extracted("1", TRUE), Extracted(NotUtf8, TRUE)}]
    /\ calls = [c \in CallStates |-> 0]
    /\ last = NoRet
    /\ snap = NoSnap
    /\ QueueUnused
    /\ PatchUnused
    /\ CatalogUnused
    /\ EventsUnused

VNext ==
    \/ \E m \in Mods :
        \/ EnableBegin(m) \/ EnableMark(m) \/ EnableProject(m)
        \/ \E r \in {"ok", "err"} : EnableUnmark(m, r) \/ EnableFinish(m, r)
    \/ \E m \in Mods : Disable(m)

SpecVersion == VInit /\ [][VNext]_vars

\* a mod whose payload has the directories and the lua file of mod A's
Sharer == "S"

SharingMods == {"A", Sharer}

\* the longest lua file on which a further command is run
MaxText == 14

\* enable_mod run from call to return
Enable(m) ==
    \E r \in {enable_mod(World, m)} :
       /\ \A n \in SharingMods : Len(src[n]) <= MaxText
       /\ Len(tgt[L].text) <= MaxText
       /\ Apply(r.w)
       /\ last' = Ret("enable", m, r.res, "", World, r.w)
       /\ snap' = NoSnap
       /\ UNCHANGED <<calls, qvars, pvars, kvars, evars>>

SInit ==
    /\ tgt \in InitialTrees
    /\ src = [m \in SharingMods |-> PayloadLua(m)]
    /\ inst = [m \in SharingMods |-> Extracted("1", TRUE)]
    /\ calls = [c \in CallStates |-> 0]
    /\ last = NoRet
    /\ snap = NoSnap
    /\ QueueUnused
    /\ PatchUnused
    /\ CatalogUnused
    /\ EventsUnused

\* the two mods are enabled and disabled, one command at a time
SNext == \E m \in SharingMods : Enable(m) \/ Disable(m)

SpecShared == SInit /\ [][SNext]_vars

\* the archive a download fetches
ArchiveVersion == "2"

UInit ==
    /\ tgt \in {Tree(None, None, None, None, None),
                Tree(UserDir, File(<<"x">>), None, Dir, None)}
    /\ src = [m \in Mods |-> PayloadLua(m)]
    /\ inst = [m \in Mods |-> Extracted("1", TRUE)]
    /\ calls = [c \in CallStates |-> 0]
    /\ last = NoRet
    /\ snap = NoSnap
    /\ QueueUnused
    /\ PatchUnused
    /\ CatalogUnused
    /\ EventsUnused

\* the application is killed while an enable_mod invocation stands between its
\* write of ENABLING and the removal: the invocation is gone, the files stay
EnableCrash(m) ==
    \E c \in {Call("project", m, "none"), Call("unmark", m, "ok"), Call("unmark", m, "err")} :
       /\ calls[c] > 0
       /\ calls' = [calls EXCEPT ![c] = @ - 1]
       /\ last' = Ret("crash", m, "killed", "", World, World)
       /\ UNCHANGED <<tgt, src, inst, snap, qvars, pvars, kvars, evars>>

\* enable_mod and disable_mod of mod A, with crashes
CNext ==
    \/ EnableBegin("A") \/ EnableMark("A") \/ EnableProject("A")
    \/ \E r \in {"ok", "err"} : EnableUnmark("A", r) \/ EnableFinish("A", r)
    \/ Disable("A")
    \/ EnableCrash("A")

SpecCrash == OInit /\ [][CNext]_vars

\* a third mod, enabled before by other means: the links into its payload are
\* what mod A's traversals find pointing elsewhere
Other == "C"

\* target trees in which the user's own files, or links into the other mod's
\* payload, stand where mod A's payload goes
ConflictTrees ==
    {Tree(r, l, t, d, f) :
        r \in {Dir, UserDir},
        l \in {None, File(<<"x">>), File(<<"x", "\n">>), Link(Other)},
        t \in {None, File(<<"u">>), Link(Other)},
        d \in {None, Dir, Link(Other)},
        f \in {None, File(<<"y">>), Link(Other)}}
    \cup {Tree(None, None, None, None, File(<<"y">>))}

RInit ==
    /\ tgt \in ConflictTrees
    /\ \E c \in {<<>>, <<"z">>} :
          src = [m \in Mods \cup {Other} |-> IF m = Other THEN c ELSE PayloadLua(m)]
    /\ inst = [m \in Mods \cup {Other} |-> Extracted("1", TRUE)]
    /\ calls = [c \in CallStates |-> 0]
    /\ last = NoRet
    /\ snap = NoSnap
    /\ QueueUnused
    /\ PatchUnused
    /\ CatalogUnused
    /\ EventsUnused

\* enable_mod and disable_mod of mod A on these trees
RNext ==
    \/ EnableBegin("A") \/ EnableMark("A") \/ EnableProject("A")
    \/ \E r \in {"ok", "err"} : EnableUnmark("A", r) \/ EnableFinish("A", r)
    \/ Disable("A")

SpecReverse == RInit /\ [][RNext]_vars

\* mod A is enabled, updated, downloaded again and deleted
UNext ==
    \/ EnableBegin("A") \/ EnableMark("A") \/ EnableProject("A")
    \/ \E r \in {"ok", "err"} : EnableUnmark("A", r) \/ EnableFinish("A", r)
    \/ Delete("A")
    \/ \E dl \in {"ok", "failed", "early"}, ok \in BOOLEAN :
          Update("A", dl, ArchiveVersion, ok)
    \/ \E dl \in {"ok", "failed"}, ok \in BOOLEAN :
          DownloadMod("A", dl, ArchiveVersion, ok)

SpecUpdate == UInit /\ [][UNext]_vars

----------------------------------------------------------------------------
(* The update check (parser.rs): the catalog of a repository is compared   *)
(* with the VERSION.txt files of the mods downloaded from that repository. *)

MaxMods == 2

CatalogUrls == {"http://example.com/repo.xml", "http://another.com/repo.xml"}

\* the first 6 hexadecimal characters of the SHA-256 of the URL
repo_hash(url) ==
    CASE url = "http://example.com/repo.xml" -> "85899b"
      [] url = "http://another.com/repo.xml" -> "f0af1f"

HashDirs == {repo_hash(u) : u \in CatalogUrls}

\* Option<String>
NoVersion == <<>>
Some(v) == <<v>>

\* every repository shares one subdirectory
shared_download_path(base, url) == base[repo_hash("http://example.com/repo.xml")]

\* base_download_path.join(repo_hash): a subdirectory that is missing holds
\* no mod directory
xml_specific_path(base, url) == base[repo_hash(url)]

\* the body of the loop over the mods of a category
CheckModEntry(dir, mod_entry) ==
    LET mod_dir == dir[mod_entry.name] IN
    IF mod_dir.kind = "nodir" THEN mod_entry             \* !mod_dir.is_dir()
    ELSE IF mod_dir.kind = "noversion" THEN mod_entry    \* !version_path.exists()
    ELSE IF mod_dir.kind = "unreadable" THEN mod_entry   \* read_to_string gave Err
    ELSE LET local_version == trim(mod_dir.text) IN
         IF local_version # mod_entry.version
         THEN [mod_entry EXCEPT !.new_version = Some(mod_entry.version),
                                !.version = local_version]
         ELSE mod_entry

check_for_updates(xml, base, url) ==
    [c \in DOMAIN xml |->
        [i \in DOMAIN xml[c] |-> CheckModEntry(xml_specific_path(base, url), xml[c][i])]]

CheckForUpdates ==
    /\ updated_mods = <<>>                    \* the call has not returned yet
    /\ updated_mods' = check_for_updates(xml_mods, base_download_path, repo_url)
    /\ UNCHANGED <<xml_mods, base_download_path, repo_url, qvars, pvars, ovars, evars>>

CatalogNames == {"Test Mod", "Other Mod"}
CatalogVersions == {<<"1">>, <<"2">>}

\* the Mod entries of a parsed catalog
CatalogMods ==
    [name : CatalogNames, version : CatalogVersions, new_version : {NoVersion}]

\* what a subdirectory holds under a mod's name: nothing, a directory
\* without VERSION.txt, one whose VERSION.txt cannot be read as text, or one
\* with a VERSION.txt of the given content
ModDirs ==
    {[kind |-> k, text |-> <<>>] : k \in {"nodir", "noversion", "unreadable"}}
    \cup {[kind |-> "file", text |-> t] : t \in {<<"1">>, <<" ", "1", "\n">>}}

\* the lists of up to n mods
RECURSIVE ModLists(_)
ModLists(n) ==
    IF n = 0 THEN {<<>>}
    ELSE ModLists(n - 1)
         \cup {Append(l, m) : l \in {x \in ModLists(n - 1) : Len(x) = n - 1},
                              m \in CatalogMods}

\* a catalog of up to MaxMods mods, in one category or split over two
Catalogs ==
    {<<l>> : l \in ModLists(MaxMods) \ {<<>>}}
    \cup {<<SubSeq(l, 1, 1), SubSeq(l, 2, Len(l))>> :
             l \in {x \in ModLists(MaxMods) : Len(x) >= 2}}

KInit ==
    /\ xml_mods \in Catalogs
    /\ base_download_path \in [HashDirs -> [CatalogNames -> ModDirs]]
    /\ repo_url \in CatalogUrls
    /\ updated_mods = <<>>
    /\ QueueUnused
    /\ PatchUnused
    /\ OverlayUnused
    /\ EventsUnused

KNext == CheckForUpdates

SpecCheck == KInit /\ [][KNext]_vars

----------------------------------------------------------------------------
(***************************************************************************)
(* The entry loop of extract_zip_with_cancellation (extraction.rs).  An    *)
(* entry name is the sequence of the components of its path: "/" for the   *)
(* root (first place only), ".." for the parent, "." for the current       *)
(* directory and "a" for a normal name; an entry whose name ends in '/'    *)
(* is a directory.  A place is a normalized path relative to extract_dir:  *)
(* it begins with ".." or "/" when it lies outside extract_dir.            *)
(***************************************************************************)
MaxDepth == 3
MaxArchive == 1

Components == {"/", "..", ".", "a"}

RECURSIVE Names(_)
Names(n) ==
    IF n = 0 THEN {<<>>}
    ELSE LET shorter == Names(n - 1)
         IN shorter \cup {Append(s, c) : s \in {x \in shorter : Len(x) = n - 1},
                                        c \in IF n = 1 THEN Components
                                              ELSE Components \ {"/"}}

Entries == [name : Names(MaxDepth) \ {<<>>}, is_dir : BOOLEAN]

RECURSIVE Archives(_)
Archives(n) ==
    IF n = 0 THEN {<<>>}
    ELSE LET shorter == Archives(n - 1)
         IN shorter \cup {Append(s, e) : s \in {x \in shorter : Len(x) = n - 1},
                                        e \in Entries}

NoPath == <<"none">>

\* the depth counter of ZipFile::enclosed_name: -1 once a root component is
\* met or a parent component would leave the starting directory
RECURSIVE EnclosedDepth(_, _)
EnclosedDepth(name, depth) ==
    IF name = <<>> THEN depth
    ELSE CASE name[1] = "/" -> -1
           [] name[1] = ".." -> IF depth = 0 THEN -1
                                ELSE EnclosedDepth(Tail(name), depth - 1)
           [] name[1] = "." -> EnclosedDepth(Tail(name), depth)
           [] OTHER -> EnclosedDepth(Tail(name), depth + 1)

\* file.name() taken as the path, whatever its components
name_unchecked(name) == name

\* file.enclosed_name(): the name as a path, or None
enclosed_name(name) ==
    IF EnclosedDepth(name, 0) < 0 THEN NoPath ELSE name

\* extract_dir.join(path), normalized: the place the path names
RECURSIVE Place(_, _)
Place(path, at) ==
    IF path = <<>> THEN at
    ELSE CASE path[1] = "/" -> Place(Tail(path), <<"/">>)
           [] path[1] = "." -> Place(Tail(path), at)
           [] path[1] = ".." ->
                 IF at = <<>> \/ at[Len(at)] = ".."
                 THEN Place(Tail(path), Append(at, ".."))
                 ELSE IF at = <<"/">> THEN Place(Tail(path), at)
                 ELSE Place(Tail(path), SubSeq(at, 1, Len(at) - 1))
           [] OTHER -> Place(Tail(path), Append(at, path[1]))

\* create_dir_all(parent) and create_dir_all(outpath) or File::create(outpath):
\* the places of outpath and of the directories above it
Touched(path) == {Place(SubSeq(path, 1, j), <<>>) : j \in 1..Len(path)}

Inside(place) == place = <<>> \/ place[1] \notin {"..", "/"}

\* one turn of the loop over 0..archive.len()
XLoop ==
    /\ xpc = "loop"
    /\ index < Len(archive)
    /\ \/ /\ xpc' = "cancelled"                  \* is_cancelled: remove_dir_all
          /\ written' = {}
          /\ UNCHANGED index
       \/ /\ xpc' = "err"                        \* by_index, create_dir_all, create or copy failed
          /\ UNCHANGED <<index, written>>
       \/ LET file == archive[index + 1]
              outpath == enclosed_name(file.name)
          IN /\ written' = IF outpath = NoPath THEN written      \* None => continue
                           ELSE written \cup Touched(outpath)
             /\ index' = index + 1
             /\ UNCHANGED xpc
    /\ UNCHANGED <<archive, emitted, installed, tvars, qvars, pvars, ovars, kvars>>

\* the loop is over: the final check and the completed event
XLoopEnd ==
    /\ xpc = "loop"
    /\ index = Len(archive)
    /\ \/ xpc' = "cancelled" /\ written' = {}
       \/ xpc' = "err" /\ UNCHANGED written      \* emit failed
       \/ xpc' = "completed" /\ UNCHANGED written
    /\ UNCHANGED <<archive, index, emitted, installed, tvars, qvars, pvars, ovars, kvars>>

EInit ==
    /\ archive \in Archives(MaxArchive)
    /\ index = 0
    /\ written = {}
    /\ xpc = "loop"
    /\ emitted = <<>>
    /\ installed = ""
    /\ TransferUnused
    /\ QueueUnused
    /\ PatchUnused
    /\ OverlayUnused
    /\ CatalogUnused

ENext == XLoop \/ XLoopEnd

SpecEntries == EInit /\ [][ENext]_vars

----------------------------------------------------------------------------
(***************************************************************************)
(* One transfer (downloader.rs, download_mod_with_cancellation) from the   *)
(* creation of the file on: the chunk loop with its progress events, the   *)
(* finalization and the verification.  total_size comes from the HEAD      *)
(* request, the chunks from the GET request.                               *)
(***************************************************************************)
MaxTotal == 3
MaxBytes == 4

\* progress.rs: calculate_progress, and floor() as i32 of what it gives
calculate_progress(bytes, total) ==
    IF total > 0 THEN (bytes * 100) \div total ELSE 0

\* while let Some(chunk) = stream.next().await: one chunk
TChunk ==
    /\ dpc = "stream"
    /\ \/ /\ dpc' = "cancelled"                  \* is_cancelled
          /\ UNCHANGED <<downloaded, last_emitted_percent, progress>>
       \/ /\ dpc' = "err"                        \* stream error, write_all failed
          /\ UNCHANGED <<downloaded, last_emitted_percent, progress>>
       \/ \E len \in 1..MaxBytes :
             /\ downloaded + len <= MaxBytes
             /\ downloaded' = downloaded + len
             /\ LET current_percent == calculate_progress(downloaded + len, total_size)
                IN IF current_percent > last_emitted_percent
                   THEN \/ /\ dpc' = "err"       \* emit failed
                           /\ UNCHANGED <<last_emitted_percent, progress>>
                        \/ /\ progress' = Append(progress, current_percent)
                           /\ last_emitted_percent' = current_percent
                           /\ UNCHANGED dpc
                   ELSE UNCHANGED <<dpc, last_emitted_percent, progress>>
    /\ UNCHANGED <<total_size, emitted, installed, xvars, qvars, pvars, ovars, kvars>>

\* the stream gave None; check before finalizing, flush, the final 100% event
TFinal ==
    /\ dpc = "stream"
    /\ \/ /\ dpc' \in {"cancelled", "err"}       \* is_cancelled; flush failed
          /\ UNCHANGED <<last_emitted_percent, progress>>
       \/ IF last_emitted_percent < 100
          THEN \/ /\ dpc' = "err"                \* emit failed
                  /\ UNCHANGED <<last_emitted_percent, progress>>
               \/ /\ progress' = Append(progress, 100)
                  /\ dpc' = "verify"
                  /\ UNCHANGED last_emitted_percent
          ELSE /\ dpc' = "verify"
               /\ UNCHANGED <<last_emitted_percent, progress>>
    /\ UNCHANGED <<total_size, downloaded, emitted, installed, xvars,
                   qvars, pvars, ovars, kvars>>

\* metadata, the empty-file test, the download-complete event
TVerify ==
    /\ dpc = "verify"
    /\ \/ dpc' = "err"                           \* no metadata, emit failed
       \/ dpc' = IF downloaded = 0 THEN "err" ELSE "ok"
    /\ UNCHANGED <<total_size, downloaded, last_emitted_percent, progress,
                   emitted, installed, xvars, qvars, pvars, ovars, kvars>>

TInit ==
    /\ total_size \in 0..MaxTotal
    /\ downloaded = 0
    /\ last_emitted_percent = 0
    /\ progress = <<>>
    /\ dpc = "stream"
    /\ emitted = <<>>
    /\ installed = ""
    /\ EntriesUnused
    /\ QueueUnused
    /\ PatchUnused
    /\ OverlayUnused
    /\ CatalogUnused

TNext == TChunk \/ TFinal \/ TVerify

SpecTransfer == TInit /\ [][TNext]_vars

----------------------------------------------------------------------------
(* Properties of the download queue *)

\* the downloads a drain task has popped and not yet concluded
InFlight == {k \in Items : pc[k] \notin {"idle", "queued", "dropped", "done"}}

\* C1: for every interleaving of enqueues, cancels and drain tasks, at most
\* MAX_CONCURRENT_DOWNLOADS (two) downloads are in flight at once; every
\* download in flight holds one permit of the semaphore.
C1_AtMostTwoInFlight ==
    /\ Cardinality(InFlight) <= MAX_CONCURRENT_DOWNLOADS
    /\ Cardinality(InFlight) + semaphore = MAX_CONCURRENT_DOWNLOADS

\* two downloads run while a third is queued and its drain task waits
C1_Witness ==
    /\ Cardinality({k \in Items : pc[k] = "running"}) = MAX_CONCURRENT_DOWNLOADS
    /\ queue # <<>>
    /\ waiting > 0

\* C4: a download that had not begun (no token registered, no download-started
\* event) when cancel_download was called for its filename never begins: its
\* pipeline never emits download-started.  The code does not keep this: a
\* download that was popped and whose token is not yet registered is found
\* neither in the queue nor in cancel_tokens.
C4_CancelledBeforeBegunNeverStarts == earlyCancelled \cap started = {}

----------------------------------------------------------------------------
\* C11: under fair scheduling, with every pipeline run returning, every
\* enqueued download that no cancel removed from the queue and whose token no
\* cancel signalled eventually emits download-started: a download that waits
\* in the queue while both permits are taken starts once one is dropped, and
\* a pipeline that ended in failure or cancellation drops its permit too.
C11_QueuedEventuallyStarts ==
    \A k \in Items :
        (pc[k] = "queued") ~> (k \in started \/ pc[k] = "dropped" \/ k \in cancelled)

\* the third download has started next to the second, after the first was
\* cancelled before its transfer began and its task dropped the permit
C11_Witness ==
    /\ 3 \in started
    /\ 3 \notin cancelled
    /\ pc[1] = "done" /\ 1 \notin started
    /\ pc[2] = "running"
    /\ semaphore = 0

\* C16: in every reachable state each filename has at most one download that
\* a task popped and has not concluded, and while such a download is past the
\* registration of its token and no cancel signalled it, the token filed under
\* its filename is its own.  The code does not keep this.
C16_OneLivePipelinePerFilename ==
    /\ \A f \in Filenames : Cardinality({k \in InFlight : FilenameOf(k) = f}) <= 1
    /\ \A k \in InFlight :
          (pc[k] \in {"start", "running", "remove_token"} /\ k \notin cancelled)
              => cancel_tokens[FilenameOf(k)] = k

\* C19: a cancel_download call whose filename is not in the pending queue when
\* it searches the queue and has no token when it searches the token map
\* returns Ok and leaves the queue, the token map, the signalled tokens and
\* every file of the download directory unchanged.
C19_CancelUnknownIsNoOp ==
    [][/\ \A f \in Filenames :
             (CancelQueue(f) /\ \A i \in 1..Len(queue) : FilenameOf(queue[i]) # f)
                 => UNCHANGED <<queue, pc, cancel_tokens, cancelled, files>>
       /\ (CancelToken /\ cancel_tokens[cfile] = 0)
             => /\ cpc' = "idle"
                /\ UNCHANGED <<queue, pc, cancel_tokens, cancelled, files>>]_vars

\* a cancel for the other filename has returned while the download's temporary
\* file is being written: nothing was signalled, the file is there
C19_Witness ==
    /\ cpc = "idle"
    /\ ncancel = 1
    /\ cancelled = {}
    /\ pc[1] = "dl_stream"
    /\ FileOf(1).tmp = "data"

\* C12: in every reachable state, a mod that is_mod_successfully_downloaded
\* reports as downloaded has a directory that a pipeline extracted in full, and
\* no pipeline for it is between its clean_existing_mod and its return: a mod
\* whose extraction is in progress, failed or was cancelled is not reported.
\* The code does not keep this.
C12_ReportedOnlyWhenComplete ==
    \A k \in 1..Len(downloads) :
        is_mod_successfully_downloaded(FileOf(k))
            => /\ FileOf(k).dir = "complete"
               /\ pc[k] \in {"queued", "insert", "start", "clean", "remove_token", "done"}

C23_NothingLeftAfterFailure ==
    \A k \in Items :
        (pc[k] \in {"remove_token", "done"} /\ result[k] \notin {"none", "ok"})
            => /\ FileOf(k).tmp = "absent"
               /\ FileOf(k).zip = "absent"
               /\ FileOf(k).dir # "partial"

\* C30: when extract_zip_with_cancellation finds the token cancelled at the
\* check after create_dir_all, the check before verify_archive, the check
\* before an entry or the final check, it returns the cancelled outcome with
\* the destination directory removed, and the completed status is not emitted.
\* (The loop makes its check before an entry; leaving the loop when no entry
\* is left is not a check.)
AtCheckpoint(t) ==
    \/ XCheck(t)
    \/ XVerify(t)
    \/ XEntry(t) /\ pc'[t] # "x_final"
    \/ XFinal(t)

Has(t, ev) == \E j \in 1..Len(emitted[t]) : emitted[t][j] = ev

InExtraction(t) == pc[t] \in {"x_check", "x_open", "x_verify", "x_entry", "x_final", "after_x"}

\* C32: the extracting status is emitted before anything is written to the
\* destination directory, the completed status is emitted only after every
\* entry was extracted, and an extraction that ends in a failure has emitted
\* an extraction-error event and no completed status.
C32_ExtractionEvents ==
    \A t \in Items :
        /\ (InExtraction(t) /\ FileOf(t).dir # "absent") => Has(t, "extracting")
        /\ (pc[t] = "after_x" /\ Has(t, "completed"))
              => (result[t] = "ok" /\ FileOf(t).dir = "complete")
        /\ (pc[t] = "after_x" /\ result[t] = "err")
              => (Has(t, "extraction-error") /\ ~Has(t, "completed"))

\* C33: once the token of a download is cancelled, the pipeline emits no
\* download-error event for it, at whatever step the cancel arrived.
C33_NoErrorEventAfterCancel ==
    [][\A t \in Items :
          IsCancelled(t) => (Has(t, "download-error")' => Has(t, "download-error"))]_vars

\* C35: downloads leave the pending queue in the order in which they were
\* enqueued: when a drain task takes download k, no download enqueued before
\* k is still pending.
C35_DequeuedInEnqueueOrder ==
    [][\A k \in Items :
          (pc[k] = "queued" /\ pc'[k] = "insert")
              => \A j \in 1..(k - 1) : pc[j] # "queued"]_vars

\* C35 as stated: when a drain task takes download k, every download
\* enqueued before k and not cancelled was taken and its CancellationToken
\* was filed already.
C35_DequeuedAndTokenFiledInOrder ==
    [][\A k \in Items :
          (pc[k] = "queued" /\ pc'[k] = "insert")
              => \A j \in 1..(k - 1) : pc[j] \notin {"queued", "insert"}]_vars

\* two downloads were taken in the order of their enqueueing by two drain
\* tasks, the first is running and the second about to file its token
C35_Witness ==
    \E j, k \in Items :
        /\ j < k
        /\ pc[j] = "running"
        /\ pc[k] = "insert"

\* C36: a download whose token cancel_download found and signalled does not
\* conclude successfully: when its pipeline has returned, the result is not
\* Ok and the directory it extracted is not there.
C36_SignalledNeverSucceeds ==
    \A t \in Items :
        (IsCancelled(t) /\ pc[t] = "remove_token")
            => /\ result[t] # "ok"
               /\ t \in started => FileOf(t).dir = "absent"

\* C38: a download that fails or is cancelled leaves the mod directory that
\* was installed before it began as it was.
C38_FailedDownloadKeepsInstalled ==
    \A t \in Items :
        (pc[t] = "remove_token" /\ result[t] # "ok" /\ installed = "complete")
            => FileOf(t).dir = "complete"

----------------------------------------------------------------------------
(* Properties of the patch ledger *)

\* no unterminated marker block: every marker line that opens a block is followed
\* by an info line and, later, by a closing marker line
RECURSIVE WellFormedLines(_)
WellFormedLines(ls) ==
    IF ls = <<>> THEN TRUE
    ELSE IF IsMarkerLine(ls[1])
         THEN /\ Len(ls) >= 2
              /\ \E i \in 3..Len(ls) : IsMarkerLine(ls[i])
              /\ WellFormedLines(SkipBlock(Tail(Tail(ls))))
         ELSE WellFormedLines(Tail(ls))

WellFormed(c) == WellFormedLines(lines(c))

\* C7: for a well-formed content c (empty or not, ending with a newline or not,
\* carrying complete blocks of other mods or not) in which check_lua_patch finds
\* no block of (mod_name, version), removing the block that add_lua_patch added
\* gives back c byte for byte.  The code does not keep this: the result is c
\* with its trailing whitespace replaced by one newline.
C7_RemoveAfterAddIsIdentity ==
    (ppc = "removed" /\ WellFormed(original)) => content = original

\* the number of info lines of (m, v) in c, one per Patch Block of (m, v)
BlockCount(c, m, v) ==
    Cardinality({i \in 1..Len(lines(c)) : IsInfoOf(lines(c)[i], m, v)})

\* what one call of patch_lua_file makes of the original content
PatchedOnce ==
    IF check_lua_patch(original, mod_name, version) THEN original
    ELSE add_lua_patch(original, mod_name, version, patch)

\* C18, for a file whose content is well-formed: after patch_lua_file was
\* called twice with the same (mod_name, version, patch), the file is what one
\* call made of it and holds exactly one Patch Block of (mod_name, version).
C18_PatchTwiceIsOnce ==
    (ppc = "twice" /\ WellFormed(original))
        => /\ content = PatchedOnce
           /\ BlockCount(content, mod_name, version) = 1

\* C18 as stated, for any file content
C18_PatchTwiceIsOnceAnyContent ==
    ppc = "twice"
        => /\ content = PatchedOnce
           /\ BlockCount(content, mod_name, version) = 1

\* patch_lua_file ran twice on a well-formed file that had a block of another
\* mod and none of this one
C18_Witness ==
    /\ ppc = "twice"
    /\ WellFormed(original)
    /\ ~check_lua_patch(original, mod_name, version)
    /\ \E m \in Mods \ {mod_name} : check_lua_patch(original, m, "1")

\* the content remove_lua_patch_from_file was called on
Before ==
    IF ppc = "removed_present" THEN original
    ELSE add_lua_patch(original, mod_name, version, patch)

\* line k of ls lies in a Patch Block of (m, v): between an opening marker
\* that the record of (m, v) follows and the next marker line after the record
InBlockOf(ls, k, m, v) ==
    \E i \in 1..k :
        /\ IsMarkerLine(ls[i])
        /\ i + 1 <= Len(ls)
        /\ IsInfoOf(ls[i + 1], m, v)
        /\ \A j \in (i + 2)..(k - 1) : ~IsMarkerLine(ls[j])

\* the lines of ls outside the Patch Blocks of (m, v), in their order
RECURSIVE OtherLines(_, _, _, _)
OtherLines(ls, k, m, v) ==
    IF k > Len(ls) THEN <<>>
    ELSE (IF InBlockOf(ls, k, m, v) THEN <<>> ELSE <<ls[k]>>)
             \o OtherLines(ls, k + 1, m, v)

\* C29, for a well-formed file: remove_lua_patch_from_file leaves the lines
\* outside the Patch Blocks of (mod_name, version), the complete blocks of
\* other mods and versions among them, unchanged and in their order, and
\* nothing else.
C29_RemoveKeepsOtherLines ==
    (ppc \in {"removed", "removed_present"} /\ WellFormed(Before))
        => content = join(OtherLines(lines(Before), 1, mod_name, version))

\* C29 as stated, for any file content
C29_RemoveKeepsOtherLinesAnyContent ==
    ppc \in {"removed", "removed_present"}
        => content = join(OtherLines(lines(Before), 1, mod_name, version))

\* the block of (mod_name, version) was removed from a well-formed file in
\* which it stood between the user's text and the block of another mod
C29_Witness ==
    /\ ppc = "removed_present"
    /\ WellFormed(original)
    /\ \E b \in (Mods \X Versions) \ {<<mod_name, version>>} :
          /\ \E t \in Texts(MaxLen - 1) \ {<<>>} :
                original = Patched(t, <<<<mod_name, version>>, b>>)
          /\ check_lua_patch(content, b[1], b[2])
          /\ ~check_lua_patch(content, mod_name, version)

----------------------------------------------------------------------------
(* Properties of the overlay engine and the commands *)

\* C2: when enable_mod succeeded and disable_mod of the same mod follows at
\* once and succeeds, the target tree is what it was before the enable: no
\* link, no patch byte and no directory of the enable is left, and nothing
\* that was there before is gone or altered.  The code does not keep this.
C2_DisableRestoresTree == snap.stage = "disabled" => tgt = snap.tree

\* the overlay of mod m is in the target tree in full: the directories of the
\* two top levels are there, the lua file is the mod's link or carries its
\* Patch Block, every other entry is the mod's link (a payload directory may
\* also lie over a real directory)
FullyApplied(m) ==
    \A p \in Payload(m) :
        IF p \in {K, R} THEN tgt[p].kind \in {"dir", "userdir"}
        ELSE IF p = L
             THEN \/ verify_symlink(World, L, m)
                  \/ /\ Exists(World, L)
                     /\ check_lua_patch(ReadText(World, L), m, inst[m].version)
        ELSE IF p = D
             THEN verify_symlink(World, D, m) \/ tgt[D].kind \in {"dir", "userdir"}
        ELSE verify_symlink(World, p, m)

\* C3: in every reachable state, a mod whose ENABLED marker exists has its
\* overlay applied in full.  The code does not keep this.
C3_EnabledImpliesFullyApplied == \A m \in Mods : inst[m].enabled => FullyApplied(m)

\* C6: of the enable_mod invocations for one mod that overlap, at most one has
\* written ENABLING and not yet removed it, so at most one projects.  The code
\* does not keep this: the marker tests and the write are separate steps.
C6_AtMostOneEnablingLive ==
    \A m \in Mods :
        calls[Call("project", m, "none")] + calls[Call("unmark", m, "ok")]
            + calls[Call("unmark", m, "err")] <= 1

\* C8: enable_mod called on a mod that is found with its VERSION.txt and
\* README.txt and whose ENABLED marker exists returns success ("Mod already
\* enabled") at once and changes nothing: no marker and no entry of the target
\* tree or of a payload is created, replaced, patched or removed.
C8_EnableOnEnabledIsNoOp ==
    [][\A m \in Mods :
          (inst[m].enabled /\ FindAndVerify(World, m) = "go" /\ EnableBegin(m))
              => /\ last' = Ret("enable", m, "already_enabled", "", World, World)
                 /\ UNCHANGED <<tgt, src, inst, calls>>]_vars

\* enable_mod has just returned "Mod already enabled" for a mod that is enabled
C8_Witness ==
    /\ last.op = "enable"
    /\ last.res = "already_enabled"
    /\ last.was
    /\ inst[last.mod].enabled

\* C9: update_mod of a mod that is found fails with "Cannot update mod while it
\* is being enabled" if and only if the ENABLING marker existed when it was
\* called.  The code does not keep this: it fails so when the marker is absent.
C9_UpdateRefusedIffEnabling ==
    (last.op = "update" /\ last.res # "not_found")
        => (last.res = "being_enabled" <=> last.had)

\* C10: when update_mod returns success the mod is enabled afterwards exactly
\* if it was enabled before; when the download succeeded and the re-enable
\* failed, update_mod returns failure and the downloaded version stays installed.
C10_UpdateKeepsEnablement ==
    last.op = "update" =>
        /\ last.res = "ok" => last.now = last.was
        /\ last.res = "enable_failed"
               => last.arg = "ok" /\ last.was /\ last.kept /\ last.ver = ArchiveVersion

\* update_mod has just succeeded on a mod that was enabled: the new version is
\* installed and enabled
C10_Witness ==
    /\ last.op = "update"
    /\ last.res = "ok"
    /\ last.was
    /\ last.now
    /\ last.ver = ArchiveVersion

\* C13: enable_mod called on a ModInstallation that lacks VERSION.txt,
\* README.txt or its payload subdirectory fails with the DirectoryStructureError,
\* writes neither marker and leaves the target tree and the payloads as they are.
C13_EnableOnBadStructureFails ==
    [][\A m \in Mods :
          (inst[m].present /\ ~inst[m].valid /\ EnableBegin(m))
              => /\ last' = Ret("enable", m, "bad_structure", "", World, World)
                 /\ UNCHANGED <<tgt, src, inst, calls>>]_vars

\* enable_mod has just failed on a ModInstallation without its README.txt
C13_Witness ==
    /\ last.op = "enable"
    /\ last.res = "bad_structure"
    /\ inst[last.mod].present
    /\ ~inst[last.mod].valid
    /\ ~inst[last.mod].enabling

\* C14: enable_mod called while the ENABLING marker of the mod exists and its
\* ENABLED marker does not fails with "Mod is currently being enabled" and
\* changes nothing: ENABLING stays, ENABLED is not written, the target tree is
\* untouched.  So it is for a marker that a killed invocation left behind.
C14_EnableOnEnablingFails ==
    [][\A m \in Mods :
          (inst[m].enabling /\ ~inst[m].enabled /\ FindAndVerify(World, m) = "go"
                /\ EnableBegin(m))
              => /\ last' = Ret("enable", m, "being_enabled", "", World, World)
                 /\ inst'[m].enabling /\ ~inst'[m].enabled
                 /\ UNCHANGED <<tgt, src, inst, calls>>]_vars

\* enable_mod has just failed on the ENABLING marker that a killed invocation
\* left: no invocation is in progress
C14_Witness ==
    /\ last.op = "enable"
    /\ last.res = "being_enabled"
    /\ inst[last.mod].enabling
    /\ ~inst[last.mod].enabled
    /\ CountCalls(CallStates) = 0

\* C15: delete_mod of a mod whose ENABLED marker exists runs disable_mod first
\* and removes the ModInstallation directory only when the disable succeeded:
\* after a successful delete the directory is gone and no entry of the target
\* tree is a link into it; when the disable failed, delete_mod fails and the
\* directory, still enabled, is left in place.
C15_DeleteDisablesFirst ==
    last.op = "delete" =>
        /\ last.res = "ok" => ~last.kept /\ ~inst[last.mod].present
        /\ (last.res = "ok" /\ last.was)
               => \A p \in Paths : ~verify_symlink(World, p, last.mod)
        /\ last.res = "disable_failed" => last.was /\ last.kept /\ last.now

\* delete_mod has just succeeded on a mod that was enabled
C15_Witness ==
    /\ last.op = "delete"
    /\ last.res = "ok"
    /\ last.was
    /\ ~last.kept

\* C21: an enable_mod invocation whose projection failed returns the
\* projection's error, and when it returns neither the ENABLED nor the
\* ENABLING marker of the mod exists.
C21_FailedEnableLeavesNoMarker ==
    [][\A m \in Mods :
          EnableFinish(m, "err")
              => /\ last'.res = "projection_failed"
                 /\ ~inst'[m].enabled
                 /\ ~inst'[m].enabling]_vars

\* C22: when the projection of an enable_mod invocation fails, the target
\* tree after the reversing cleanup is the target tree before the projection.
C22_FailedEnableRestoresTree ==
    [][\A m \in Mods :
          (EnableProject(m) /\ inst[m].present /\ ~ProjectOrReverse(World, m).ok)
              => tgt' = tgt]_vars

\* C24: disable_mod leaves every symlink of the target tree that does not
\* point into the payload of its mod as it is.
C24_ForeignLinksSurviveDisable ==
    [][\A m \in Mods :
          Disable(m)
              => \A p \in Paths :
                    (tgt[p].kind = "link" /\ tgt[p].to # m) => tgt'[p] = tgt[p]]_vars

\* C25: when, as the projection of enable_mod begins, the destination of a
\* payload file or directory below level 3, other than the lua file, holds a
\* real file or a real directory, the projection fails.
C25_ConflictAbortsEnable ==
    [][\A m \in Mods :
          (/\ EnableProject(m)
           /\ inst[m].present
           /\ \E p \in Payload(m) \cap {T, D, N} :
                 tgt[p].kind \in {"file", "dir", "userdir"})
              => ~ProjectOrReverse(World, m).ok]_vars

\* the payload entries of mod m that the projection is to link: the level-2
\* file and the entries below level 3 that have an extension or are directories
Linked(m) == Payload(m) \cap {L, T, D, F}

\* C26: when, as the projection of enable_mod begins, every destination of a
\* payload entry that is to be linked is free or a symlink to an existing
\* file or directory, and one of them is a symlink, the projection succeeds,
\* every such destination is afterwards the link to the mod's own entry, and
\* no file behind a link has been written.
C26_ExistingLinksKeptOrReplaced ==
    [][\A m \in Mods :
          (/\ EnableProject(m)
           /\ inst[m].present
           /\ \A p \in Linked(m) : tgt[p].kind = "none" \/ (is_symlink(World, p) /\ Exists(World, p))
           /\ \E p \in Linked(m) : is_symlink(World, p))
              => /\ ProjectOrReverse(World, m).ok
                 /\ \A p \in Linked(m) : tgt'[p] = Link(m)
                 /\ src' = src]_vars

\* C27: when the projection of enable_mod succeeds, the payload directories
\* of levels 2 and 3 are real directories of the target tree and every
\* payload entry below them, and the level-2 file, is a symlink to the mod's
\* entry, except the lua file when its destination existed before.
C27_DeepEntriesAreLinks ==
    [][\A m \in Mods :
          (EnableProject(m) /\ inst[m].present /\ ProjectOrReverse(World, m).ok)
              => /\ \A p \in Payload(m) \cap {K, R} : tgt'[p].kind \in {"dir", "userdir"}
                 /\ \A p \in Payload(m) \ {K, R} :
                       \/ tgt'[p] = Link(m)
                       \/ p = L /\ Exists(World, L)]_vars

\* C28: no step of enable_mod or disable_mod changes the content of a file in
\* the payload of any mod.
C28_PayloadNeverWritten == [][src' = src]_vars

\* the target tree holds an Overlay Link into mod m or a Patch Block of m
HasOverlayOf(m) ==
    \/ \E p \in Paths : tgt[p].kind = "link" /\ tgt[p].to = m
    \/ /\ tgt[L].kind = "file"
       /\ \E v \in Versions : check_lua_patch(tgt[L].text, m, v)

\* C37: in every reachable state, a mod of which the target tree holds an
\* Overlay Link or a Patch Block has its ModInstallation directory, carrying
\* the ENABLED or the ENABLING marker.
C37_OverlayImpliesMarker ==
    \A m \in Mods :
        HasOverlayOf(m) => (inst[m].present /\ (inst[m].enabled \/ inst[m].enabling))


\* an enable_mod invocation of mod m that had written ENABLING returns in this step
EnableReturns(m) ==
    \E c \in CallStates :
        /\ c.mod = m
        /\ c.at # "mark"
        /\ calls'[c] = calls[c] - 1
        /\ \A d \in CallStates \ {c} : calls'[d] = calls[d]

\* C39: when an enable_mod invocation that wrote the ENABLING marker returns,
\* with success or with any error, the ENABLING marker of its mod is absent.
C39_NoEnablingAfterReturn ==
    [][\A m \in Mods : EnableReturns(m) => ~inst'[m].enabling]_vars

\* the world after the step
WorldNext == [tgt |-> tgt', src |-> src', inst |-> inst', ok |-> TRUE]

\* the Patch Block of mod m is in the lua file of the target tree
HasBlock(w, m) ==
    /\ L \in Payload(m)
    /\ Exists(w, L)
    /\ check_lua_patch(ReadText(w, L), m, w.inst[m].version)

\* C40: disable_mod of one mod removes no link and no Patch Block of another
\* mod that is ENABLED, whatever the payloads share and in whatever order the
\* two were enabled.
C40_DisableKeepsOtherMod ==
    [][\A a \in SharingMods, b \in SharingMods :
          (a # b /\ Disable(a) /\ inst[b].enabled)
              => /\ \A p \in Payload(b) :
                      verify_symlink(World, p, b) => verify_symlink(WorldNext, p, b)
                 /\ HasBlock(World, b) => HasBlock(WorldNext, b)]_vars

----------------------------------------------------------------------------
(* Properties of the entry loop *)

\* the entry's name holds a root component, or a parent component that leaves
\* extract_dir
Escapes(name) == \E j \in 1..Len(name) : ~Inside(Place(SubSeq(name, 1, j), <<>>))

\* C31: extraction creates or writes nothing outside the destination
\* directory: every place it touched lies inside extract_dir, and an entry
\* whose path would escape (a ".." component that leaves it, an absolute
\* path) touches nothing.
C31_NothingWrittenOutside ==
    /\ \A place \in written : Inside(place)
    /\ \A j \in 1..index :
          Escapes(archive[j].name) => Place(archive[j].name, <<>>) \notin written

\* the pass completed on an archive holding an entry that climbs out of
\* extract_dir after descending into it
C31_Witness ==
    /\ xpc = "completed"
    /\ \E j \in 1..Len(archive) :
          /\ archive[j].name = <<"a", "..", "..">>
          /\ Place(archive[j].name, <<>>) = <<"..">>
          /\ <<"..">> \notin written

----------------------------------------------------------------------------
(* Properties of the transfer *)

StrictlyIncreasing(s) == \A j \in 1..(Len(s) - 1) : s[j] < s[j + 1]

Emitted100 == \E j \in 1..Len(progress) : progress[j] = 100

\* the download-progress events carry strictly increasing percentages
ProgressIncreases == StrictlyIncreasing(progress)

\* no event is emitted in the chunk loop while total_size is 0
NoneWithoutTotal == (total_size = 0 /\ dpc = "stream") => progress = <<>>

\* a transfer that succeeded emitted a 100% event
HundredOnSuccess == dpc = "ok" => Emitted100

\* a transfer that emitted a 100% event does not fail and is not cancelled
HundredOnlyOnSuccess == Emitted100 => dpc \notin {"err", "cancelled"}

\* C34: within one transfer the download-progress events carry strictly
\* increasing percentages, none is emitted in the loop while the total is 0,
\* a transfer that ends successfully has emitted a 100% event, and a 100%
\* event is emitted only by transfers that succeed.
C34_ProgressEvents ==
    /\ ProgressIncreases
    /\ NoneWithoutTotal
    /\ HundredOnSuccess
    /\ HundredOnlyOnSuccess

----------------------------------------------------------------------------
(* Properties of the update check *)

\* t is s without its leading and its trailing whitespace
IsTrimOf(t, s) ==
    \E i \in 1..(Len(s) + 1), j \in 0..Len(s) :
        /\ t = SubSeq(s, i, j)
        /\ \A k \in 1..(i - 1) : IsWhitespace(s[k])
        /\ \A k \in (j + 1)..Len(s) : IsWhitespace(s[k])
        /\ t # <<>> => ~IsWhitespace(t[1]) /\ ~IsWhitespace(t[Len(t)])

\* what lies under the mod's name in the subdirectory of the repository
InstalledAs(m) == base_download_path[repo_hash(repo_url)][m.name]

\* C20: once check_for_updates has returned, the result has the catalog's
\* categories and mods in the catalog's order, and for every mod of the
\* catalog: if its directory exists in the subdirectory named by the hash
\* of the repository URL with a VERSION.txt whose trimmed content differs
\* from the catalog version, the result carries the local version as version
\* and the catalog version as new_version; if it has no directory there
\* (whatever lies under its name in another repository's subdirectory) or if
\* the trimmed content equals the catalog version, the result carries the
\* catalog's entry unchanged.
C20_UpdatesReportedPerSource ==
    updated_mods # <<>> =>
        /\ DOMAIN updated_mods = DOMAIN xml_mods
        /\ \A c \in DOMAIN xml_mods :
              /\ DOMAIN updated_mods[c] = DOMAIN xml_mods[c]
              /\ \A i \in DOMAIN xml_mods[c] :
                    LET m == xml_mods[c][i]
                        u == updated_mods[c][i]
                        d == InstalledAs(m)
                    IN /\ (d.kind = "file" /\ ~IsTrimOf(m.version, d.text))
                             => /\ IsTrimOf(u.version, d.text)
                                /\ u.new_version = Some(m.version)
                                /\ u.name = m.name
                       /\ (d.kind = "nodir"
                              \/ (d.kind = "file" /\ IsTrimOf(m.version, d.text)))
                             => u = m

\* the call has returned for a catalog of two mods: the first has an update
\* under this repository while another repository's subdirectory holds a
\* different VERSION.txt under the same name; the second is installed under the
\* other repository only
C20_Witness ==
    /\ updated_mods # <<>>
    /\ \E o \in CatalogUrls \ {repo_url} :
        \E c1, c2 \in DOMAIN xml_mods :
          \E i1 \in DOMAIN xml_mods[c1], i2 \in DOMAIN xml_mods[c2] :
            LET m1 == xml_mods[c1][i1]
                m2 == xml_mods[c2][i2]
            IN /\ m1.name # m2.name
               /\ InstalledAs(m1).kind = "file"
               /\ updated_mods[c1][i1].new_version = Some(m1.version)
               /\ updated_mods[c1][i1].version # m1.version
               /\ base_download_path[repo_hash(o)][m1.name].kind = "file"
               /\ base_download_path[repo_hash(o)][m1.name].text # InstalledAs(m1).text
               /\ InstalledAs(m2).kind = "nodir"
               /\ base_download_path[repo_hash(o)][m2.name].kind = "file"
               /\ ~IsTrimOf(m2.version, base_download_path[repo_hash(o)][m2.name].text)
               /\ updated_mods[c2][i2] = m2

====
